---- MODULE Spec2Model ----
(***************************************************************************)
(* A model of the sw1nn package repository server: the debouncing         *)
(* database-update actor (src/db_actor.rs), the chunked upload engine      *)
(* (src/upload.rs, src/api/upload.rs) and the package store                *)
(* (src/storage/mod.rs).                                                   *)
(*                                                                         *)
(* Time is a discrete clock whose tick is 100 ms, the granularity of the   *)
(* actor's minimum timer.                                                  *)
(***************************************************************************)
EXTENDS Integers, Sequences, FiniteSets, TLC

\* ------------------------------------------------------------------ bounds
\* The last clock value the model explores.
MaxTime == 3
\* The number of messages the request handlers send to the actor in one run.
MaxSends == 3
\* The number of messages the inbox holds in the model (the code's channel
\* holds CHANNEL_CAPACITY = 100, db_actor.rs:106).
MaxInbox == 2
\* debounce_duration in ticks (configurable: DbUpdateActor::with_debounce).
Debounce == 2

\* The largest file_size an upload session is initiated with, in bytes.
MaxFileSize == 3

\* The number of requests to the upload endpoints received in one run.
MaxOps == 3

\* The wall clock runs from 0 to MaxUtc, in units of the session lifetime.
MaxUtc == 2
MaxSessionPayload == 1
MaxListed == 5

\* ------------------------------------------------- constants of the program
\* Duration::from_millis(100), the floor of next_timeout, in ticks.
MinTimeout == 1
\* Duration::from_secs(3600), the timeout with nothing pending, in ticks.
IdleTimeout == 36000
\* DEFAULT_SESSION_EXPIRATION_SECS, the unit of the wall clock.
SessionLifetime == 1

\* (repo, arch) pairs: RepoArchKey.
Keys == {"k1", "k2"}
\* Request handlers that regenerate a database themselves (complete_upload,
\* delete_versions), each a task of the runtime.
Handlers == {"h1", "h2"}

NoKey == "none"

\* The upload_ids (UUID v4) the server issues.
UploadIds == {"u1"}
TwoUploadIds == {"u1", "u2"}
\* Request tasks serving the chunked-upload endpoints.
Tasks == {"t1", "t2"}
\* Callers of Storage::store_package.
StoreCallers == {"s1", "s2"}
\* Byte values; a zero byte is also what a hole of a sparse file reads as.
Bytes == {0, 1}

VARIABLES
    \* ---- UploadSessionStore
    sessions,     \* the session map: a function on the upload_ids that have a session
    staging,      \* <data>/.uploads/<id>/: a function on the ids whose directory exists
    issued,       \* upload_ids handed out so far
    \* ---- Storage
    archives,     \* package files: a function on the filenames stored
    records,      \* metadata/<name>.json: a function on the package names recorded
    \* ---- request tasks
    task,         \* task -> the request it serves and where it stands in it
    ops,          \* requests received so far (bounded by MaxOps)
    response,     \* the response a handler returned last
    \* ---- history of the uploads
    acked,        \* upload_id -> chunk numbers whose store_chunk returned success
    \* ---- the wall clock and the expiry sweep
    utc,          \* Utc::now(), in session lifetimes' time unit
    sweep,        \* the cleanup task: where it stands, the expired ids it collected
    destroyed,    \* issued upload_ids whose delete_session has returned Ok
    \* ---- Config
    max_payload_size, \* server.max_payload_size
    auto_cleanup_enabled, \* storage.auto_cleanup_enabled
    \* ---- Uuid
    uuids,        \* the upload_ids Uuid::new_v4() yields and requests name in this run
    \* ---- DELETE /packages/{name}/versions
    versionDelete, \* the delete_versions handler: where it stands, its specs, what it found
    \* ---- <repo>/os/<arch>/<repo>.db.tar.gz and its alias <repo>.db
    db,           \* generate_repo_db: where it stands, the archive file, the symlink
    served,       \* what serve_file returned last for <repo>.db
    \* ---- tracing
    errors,       \* messages written with tracing::error! so far
    \* ---- DELETE /packages/{name}
    deleter,      \* the delete_package handler: where it stands, the package it loaded
    \* ---- history of the storage
    stored,       \* filenames whose store_package returned Ok and no delete was given since
    \* ---- a function of the service called on its own
    call,         \* the function, its arguments, its return value once it returned
    \* ---- callers of Storage::store_package
    storeCall,    \* caller -> its package, its data, where it stands, what it got
    \* ---- the clock
    now,
    \* ---- DbUpdateHandle / channel
    inbox,        \* messages sent and not yet received, oldest first
    closed,       \* every sender dropped: recv yields None once inbox is empty
    sent,         \* messages sent so far (bounded by MaxSends)
    \* ---- DbUpdateActor
    pending,      \* HashMap<RepoArchKey, PendingUpdate>: a function on a subset of Keys
    actorPc,      \* "select" | "regen" | "stopped"
    actorCur,     \* the key whose regenerate_db the actor is awaiting
    actorWork,    \* keys of the current ready_keys / keys list still to process
    actorMode,    \* which handler the actor is in: "idle" | "force" | "ready" | "flush"
    deadline,     \* when the sleep(timeout) of this loop iteration elapses
    timerArmed,   \* the inbox was empty when this loop iteration began
    \* ---- handlers calling regenerate_repo_db directly
    direct,       \* handler -> the key it is regenerating, or NoKey
    \* ---- history of the actor
    handling,     \* the message (or timer) the actor handled last
    handlingBase, \* regenerations of handling.key started before it was received
    actorRegens,  \* key -> regenerations the actor has started
    reqCount,     \* key -> RequestUpdate messages the actor has handled
    reqLast,      \* key -> when the last of them was handled
    gapOK,        \* key -> every one came less than Debounce after the one before
    forced,       \* key -> a ForceRebuild for it was handled
    shutdownKeys, \* keys pending when Shutdown (or None) was received
    flushed       \* key -> regenerations started by flush_all_pending

actorVars == <<pending, actorPc, actorCur, actorWork, actorMode, deadline, timerArmed>>
chanVars == <<inbox, closed, sent>>
histVars == <<handling, handlingBase, actorRegens, reqCount, reqLast, gapOK, forced,
              shutdownKeys, flushed>>
actorSide == <<now, chanVars, actorVars, direct, histVars>>
uploadSide == <<sessions, staging, issued, archives, records, task, ops, response, acked>>
storeSide == <<storeCall>>
sessionSide == <<utc, sweep, destroyed>>
configSide == <<max_payload_size, auto_cleanup_enabled, uuids>>
logSide == <<errors>>
versionSide == <<versionDelete>>
dbSide == <<db, served>>
fnSide == <<call>>
repoSide == <<deleter, stored>>
otherSide == <<configSide, fnSide, repoSide, logSide, versionSide, dbSide>>
vars == <<actorSide, uploadSide, storeSide, sessionSide, otherSide>>

\* ------------------------------------------------------------------ helpers
\* config.rs, default_auto_cleanup_enabled().
default_auto_cleanup_enabled == TRUE

Max(a, b) == IF a >= b THEN a ELSE b
MinOf(S) == CHOOSE x \in S : \A y \in S : x <= y
\* Instant::saturating_duration_since
saturating_duration_since(a, b) == IF a >= b THEN a - b ELSE 0
\* HashMap::remove
remove(p, k) == [x \in DOMAIN p \ {k} |-> p[x]]
EmptyMap == [x \in {} |-> 0]

RequestUpdate(k) == [type |-> "RequestUpdate", key |-> k]
ForceRebuild(k) == [type |-> "ForceRebuild", key |-> k]
Shutdown == [type |-> "Shutdown", key |-> NoKey]
NoMessage == [type |-> "None", key |-> NoKey]
TimerFired == [type |-> "Timer", key |-> NoKey]

\* ------------------------------------------------------- DbUpdateActor, pure
\* A handle_request that records nothing.
handle_request_dropped(p, k, t) == p

\* handle_request: insert (first = last = now) or update last.
handle_request(p, k, t) ==
    IF k \in DOMAIN p
    THEN [p EXCEPT ![k].last_requested = t]
    ELSE (k :> [first_requested |-> t, last_requested |-> t]) @@ p

\* A handle_force_rebuild that forgets self.pending.remove(&key).
handle_force_rebuild_keeps_entry(p, k) == p

\* handle_force_rebuild, the map part: self.pending.remove(&key).
handle_force_rebuild(p, k) == remove(p, k)

\* next_timeout.
next_timeout(p, t) ==
    IF DOMAIN p = {}
    THEN IdleTimeout
    ELSE Max(MinOf({saturating_duration_since(p[k].last_requested + Debounce, t) :
                        k \in DOMAIN p}),
             MinTimeout)

\* A process_ready_updates whose filter forgets the debounce period.
ready_keys_no_debounce(p, t) == DOMAIN p

\* A process_ready_updates whose filter measures from first_requested.
ready_keys_since_first(p, t) ==
    {k \in DOMAIN p : saturating_duration_since(t, p[k].first_requested) >= Debounce}

\* process_ready_updates, the filter: keys whose debounce period has passed.
ready_keys(p, t) ==
    {k \in DOMAIN p : saturating_duration_since(t, p[k].last_requested) >= Debounce}

\* A flush_all_pending that stops the actor without draining.
flush_keys_none(p) == {}

\* flush_all_pending, the key list: self.pending.keys().
flush_keys(p) == DOMAIN p

\* ------------------------------------------------------------------- Init
ActorInit ==
    /\ now = 0
    /\ inbox = <<>>
    /\ closed = FALSE
    /\ sent = 0
    /\ pending = EmptyMap
    /\ actorPc = "select"
    /\ actorCur = NoKey
    /\ actorWork = {}
    /\ actorMode = "idle"
    /\ deadline = next_timeout(EmptyMap, 0)
    /\ timerArmed = TRUE
    /\ direct = [h \in Handlers |-> NoKey]
    /\ handling = NoMessage
    /\ handlingBase = 0
    /\ actorRegens = [k \in Keys |-> 0]
    /\ reqCount = [k \in Keys |-> 0]
    /\ reqLast = [k \in Keys |-> 0]
    /\ gapOK = [k \in Keys |-> TRUE]
    /\ forced = [k \in Keys |-> FALSE]
    /\ shutdownKeys = {}
    /\ flushed = [k \in Keys |-> 0]

\* ------------------------------------------------------------------ clock
Tick ==
    /\ now < MaxTime
    /\ now' = now + 1
    /\ UNCHANGED <<uploadSide, storeSide, sessionSide, otherSide, chanVars, actorVars, direct, histVars>>

\* ------------------------------------------------------- DbUpdateHandle
\* tx.send(msg).await: waits while the channel is full; fails (logged) once the
\* actor has dropped the receiver.
Send(msg) ==
    /\ ~closed
    /\ actorPc # "stopped"
    /\ sent < MaxSends
    /\ Len(inbox) < MaxInbox
    /\ inbox' = Append(inbox, msg)
    /\ sent' = sent + 1
    /\ UNCHANGED <<uploadSide, storeSide, sessionSide, otherSide, now, closed, actorVars, direct, histVars>>

request_update == \E k \in Keys : Send(RequestUpdate(k))
force_rebuild == \E k \in Keys : Send(ForceRebuild(k))
shutdown == Send(Shutdown)

\* Every DbUpdateHandle is dropped: the channel closes.
DropHandles ==
    /\ ~closed
    /\ closed' = TRUE
    /\ UNCHANGED <<uploadSide, storeSide, sessionSide, otherSide, now, inbox, sent, actorVars, direct, histVars>>

\* ------------------------------------------------------- DbUpdateActor::run
\* The top of the loop: timeout = next_timeout(), then select!.  A message
\* already in the inbox is received at once, the timer of at least 100 ms
\* cannot win.
LoopAgain(p, ib) ==
    /\ actorPc' = "select"
    /\ actorCur' = NoKey
    /\ actorWork' = {}
    /\ actorMode' = "idle"
    /\ deadline' = now + next_timeout(p, now)
    /\ timerArmed' = (ib = <<>>)

\* regenerate_db(key) begins: the actor awaits regenerate_repo_db.
StartRegen(k, rest, mode) ==
    /\ actorPc' = "regen"
    /\ actorCur' = k
    /\ actorWork' = rest
    /\ actorMode' = mode
    /\ actorRegens' = [actorRegens EXCEPT ![k] = @ + 1]
    /\ flushed' = IF mode = "flush" THEN [flushed EXCEPT ![k] = @ + 1] ELSE flushed
    /\ UNCHANGED <<deadline, timerArmed>>

\* msg = Some(RequestUpdate(key)) => self.handle_request(key)
run_RequestUpdate ==
    /\ actorPc = "select"
    /\ inbox # <<>>
    /\ Head(inbox).type = "RequestUpdate"
    /\ LET k == Head(inbox).key IN
        /\ pending' = handle_request(pending, k, now)
        /\ inbox' = Tail(inbox)
        /\ LoopAgain(pending', inbox')
        /\ handling' = Head(inbox)
        /\ handlingBase' = actorRegens[k]
        /\ reqCount' = [reqCount EXCEPT ![k] = @ + 1]
        /\ reqLast' = [reqLast EXCEPT ![k] = now]
        /\ gapOK' = [gapOK EXCEPT ![k] =
                        @ /\ (reqCount[k] = 0 \/ now - reqLast[k] < Debounce)]
    /\ UNCHANGED <<uploadSide, storeSide, sessionSide, otherSide, now, closed, sent, direct, actorRegens, forced, shutdownKeys, flushed>>

\* msg = Some(ForceRebuild(key)) => self.handle_force_rebuild(key).await
run_ForceRebuild ==
    /\ actorPc = "select"
    /\ inbox # <<>>
    /\ Head(inbox).type = "ForceRebuild"
    /\ LET k == Head(inbox).key IN
        /\ pending' = handle_force_rebuild(pending, k)
        /\ inbox' = Tail(inbox)
        /\ StartRegen(k, {}, "force")
        /\ handling' = Head(inbox)
        /\ handlingBase' = actorRegens[k]
        /\ forced' = [forced EXCEPT ![k] = TRUE]
    /\ UNCHANGED <<uploadSide, storeSide, sessionSide, otherSide, now, closed, sent, direct, reqCount, reqLast, gapOK, shutdownKeys>>

\* flush_all_pending: for key in keys { pending.remove(key); regenerate_db(key).await }
flush_all_pending(msg) ==
    LET keys == flush_keys(pending) IN
    /\ handling' = msg
    /\ handlingBase' = 0
    /\ shutdownKeys' = DOMAIN pending
    /\ IF keys = {}
       THEN /\ actorPc' = "stopped"
            /\ UNCHANGED <<pending, actorCur, actorWork, actorMode, deadline, timerArmed,
                           actorRegens, flushed>>
       ELSE \E k \in keys :
            /\ pending' = remove(pending, k)
            /\ StartRegen(k, keys \ {k}, "flush")

\* msg = Some(Shutdown) => flush_all_pending, break
run_Shutdown ==
    /\ actorPc = "select"
    /\ inbox # <<>>
    /\ Head(inbox).type = "Shutdown"
    /\ inbox' = Tail(inbox)
    /\ flush_all_pending(Shutdown)
    /\ UNCHANGED <<uploadSide, storeSide, sessionSide, otherSide, now, closed, sent, direct, reqCount, reqLast, gapOK, forced>>

\* msg = None (channel closed) => flush_all_pending, break
run_None ==
    /\ actorPc = "select"
    /\ inbox = <<>>
    /\ closed
    /\ flush_all_pending(NoMessage)
    /\ UNCHANGED <<uploadSide, storeSide, sessionSide, otherSide, now, chanVars, direct, reqCount, reqLast, gapOK, forced>>

\* _ = sleep(timeout) => self.process_ready_updates().await
process_ready_updates ==
    /\ actorPc = "select"
    /\ timerArmed
    /\ now >= deadline
    /\ handling' = TimerFired
    /\ handlingBase' = 0
    /\ LET ready == ready_keys(pending, now) IN
       IF ready = {}
       THEN /\ LoopAgain(pending, inbox)
            /\ UNCHANGED <<pending, actorRegens, flushed>>
       ELSE \E k \in ready :
            /\ pending' = remove(pending, k)
            /\ StartRegen(k, ready \ {k}, "ready")
    /\ UNCHANGED <<uploadSide, storeSide, sessionSide, otherSide, now, chanVars, direct, reqCount, reqLast, gapOK, forced, shutdownKeys>>

\* regenerate_db(key) returns (its error is logged and dropped); the for loop
\* of the handler takes its next key, or the handler returns.
regenerate_db_done ==
    /\ actorPc = "regen"
    /\ IF actorWork # {}
       THEN \E k \in actorWork :
            /\ pending' = remove(pending, k)
            /\ StartRegen(k, actorWork \ {k}, actorMode)
       ELSE /\ UNCHANGED <<pending, actorRegens, flushed>>
            /\ IF actorMode = "flush"
               THEN /\ actorPc' = "stopped"
                    /\ actorCur' = NoKey
                    /\ UNCHANGED <<actorWork, actorMode, deadline, timerArmed>>
               ELSE LoopAgain(pending, inbox)
    /\ UNCHANGED <<uploadSide, storeSide, sessionSide, otherSide, now, chanVars, direct, handling, handlingBase, reqCount, reqLast,
                   gapOK, forced, shutdownKeys>>

\* ------------------------------------- regenerate_repo_db called by handlers
\* complete_upload (api/upload.rs:389, 422) and delete_versions
\* (api/delete_versions.rs:143) await regenerate_repo_db in the request task.
direct_regen_start ==
    \E h \in Handlers, k \in Keys :
        /\ direct[h] = NoKey
        /\ direct' = [direct EXCEPT ![h] = k]
        /\ UNCHANGED <<uploadSide, storeSide, sessionSide, otherSide, now, chanVars, actorVars, histVars>>

direct_regen_done ==
    \E h \in Handlers :
        /\ direct[h] # NoKey
        /\ direct' = [direct EXCEPT ![h] = NoKey]
        /\ UNCHANGED <<uploadSide, storeSide, sessionSide, otherSide, now, chanVars, actorVars, histVars>>

\* =========================================================================
\* The chunked upload engine: UploadSessionStore (src/upload.rs), its handlers
\* (src/api/upload.rs) and the Storage they move the package into.
\* =========================================================================
\* A chunk body of l bytes, all b.
Fill(b, l) == [i \in 1..l |-> b]
\* The request bodies the clients send.
Bodies == {Fill(b, l) : b \in Bytes, l \in 0..MaxFileSize}

\* sha2::Sha256, hasher.update(data): a collision-free digest, the bytes fed
\* so far read as a binary numeral behind a leading 1.
RECURSIVE Sha256Update(_, _)
Sha256Update(h, data) ==
    IF data = <<>> THEN h
    ELSE Sha256Update(2 * h + Head(data), Tail(data))

\* Sha256::new()
Sha256New == Sha256Update(1, <<>>)
\* calculate_sha256 / the digest of a whole byte string.
Sha256(data) == Sha256Update(Sha256New, data)

\* format!("{:x}", digest): the digest in lowercase hexadecimal digits.
LowerHex(h) == [digest |-> h, upper |-> FALSE]
\* The same digits as a client may also write them, in upper case.
UpperHex(h) == [digest |-> h, upper |-> TRUE]

\* Option<String>: the sha256 of a session, the text the client declared.
NoSha == [some |-> FALSE, hash |-> LowerHex(Sha256New)]
SomeSha(h) == [some |-> TRUE, hash |-> h]

\* UploadSessionBuilder::build: total_chunks = ceil(file_size / chunk_size).
total_chunks(file_size, chunk_size) == (file_size + chunk_size - 1) \div chunk_size

\* UploadSession as build() returns it.
NewSession(file_size, chunk_size, sha, created_at) ==
    [file_size |-> file_size, chunk_size |-> chunk_size,
     total_chunks |-> total_chunks(file_size, chunk_size),
     sha256 |-> sha, uploaded_chunks |-> {},
     expires_at |-> created_at + SessionLifetime]

NoSession == NewSession(0, 1, NoSha, 0)

\* An is_expired that never finds a session expired.
is_expired_never(s, t) == FALSE

\* UploadSession::is_expired at wall-clock time t: Utc::now() > expires_at.
is_expired(s, t) == t > s.expires_at

\* An is_complete that takes every session for a complete one.
is_complete_any(s) == TRUE

\* UploadSession::is_complete
is_complete(s) ==
    /\ Cardinality(s.uploaded_chunks) = s.total_chunks
    /\ \A n \in 1..s.total_chunks : n \in s.uploaded_chunks

\* A store_chunk that demands chunk_size bytes of every chunk, the last too.
expected_chunk_size_always_full(s, n) == s.chunk_size

\* store_chunk, the size a chunk must have: chunk_size, and for the last chunk
\* file_size % chunk_size, or chunk_size when that is zero.
expected_chunk_size(s, n) ==
    IF n < s.total_chunks
    THEN s.chunk_size
    ELSE IF s.file_size % s.chunk_size = 0
         THEN s.chunk_size
         ELSE s.file_size % s.chunk_size

\* store_chunk, the validation of the chunk number and the body length.
\* A store_chunk that does not compare the chunk number with the range.
store_chunk_check_any_number(s, n, len) ==
    IF len # expected_chunk_size(s, n) THEN "chunk size mismatch"
    ELSE "ok"

store_chunk_check(s, n, len) ==
    IF n < 1 \/ n > s.total_chunks THEN "chunk out of range"
    ELSE IF len # expected_chunk_size(s, n) THEN "chunk size mismatch"
    ELSE "ok"

\* An assemble_chunks that skips the comparison with the session's sha256.
checksum_ok_unchecked(s, h) == TRUE

\* assemble_chunks, "Verify SHA256 if provided".
checksum_ok(s, h) == s.sha256.some => LowerHex(h) = s.sha256.hash

\* assemble_chunks, "Verify size".
size_ok(s, total_size) == total_size = s.file_size

\* extract_pkginfo, as far as the model follows the archive format: an archive
\* decodes when its first byte is 1, and its last byte is its pkgver.
extract_pkginfo(data) ==
    IF data # <<>> /\ data[1] = 1
    THEN [ok |-> TRUE, pkgname |-> "pkg", pkgver |-> data[Len(data)]]
    ELSE [ok |-> FALSE, pkgname |-> "", pkgver |-> 0]

\* complete_upload, "Create filename": {pkgname}-{pkgver}-{arch}.pkg.tar.zst
canonical_filename(info) == <<info.pkgname, info.pkgver>>

\* A write of d at offset off into a file holding f (a hole reads as zeros).
WriteAt(f, off, d) ==
    [i \in 1..Max(Len(f), off + Len(d)) |->
        IF i > off /\ i <= off + Len(d) THEN d[i - off]
        ELSE IF i <= Len(f) THEN f[i] ELSE 0]

NoFile == [exists |-> FALSE, data |-> <<>>]
File(d) == [exists |-> TRUE, data |-> d]
\* create_dir_all(<data>/.uploads/<id>/chunks)
EmptyDir == [chunks |-> EmptyMap, assembled |-> NoFile, signature |-> NoFile]

NoPackage == [name |-> "", filename |-> <<>>, sha256 |-> LowerHex(Sha256New), size |-> 0]
NoResponse == [op |-> "none", kind |-> "none", why |-> "none"]
IdleTask ==
    [op |-> "idle", pc |-> "idle", id |-> "none", n |-> 0, body |-> <<>>,
     snap |-> NoSession, total_size |-> 0, hasher |-> Sha256New, package |-> NoPackage,
     ackedBefore |-> {}]

UploadInit ==
    /\ sessions = EmptyMap
    /\ staging = EmptyMap
    /\ issued = {}
    /\ archives = EmptyMap
    /\ records = EmptyMap
    /\ task = [t \in Tasks |-> IdleTask]
    /\ ops = 0
    /\ response = NoResponse
    /\ acked = [id \in TwoUploadIds |-> {}]

\* The cleanup task asleep between two sweeps.
SweepAsleep == [pc |-> "sleep", work |-> {}, cur |-> "none"]

SessionInit ==
    /\ utc = 0
    /\ sweep = SweepAsleep
    /\ destroyed = {}

IdleCall ==
    [pc |-> "idle", package |-> NoPackage, data |-> <<>>, result |-> "none",
     overlapped |-> FALSE]

StorageInit == storeCall = [c \in StoreCallers |-> IdleCall]

\* A repo directory in which no database was generated yet, and no
\* generate_repo_db running.
NoDb ==
    [pc |-> "idle", exists |-> FALSE, entries |-> 0, finished |-> FALSE, link |-> FALSE,
     packages |-> 0, published |-> 0]

\* No GET of <repo>.db was answered yet.
NotServed == [status |-> "none", entries |-> 0, finished |-> FALSE, published |-> 0]

\* No DELETE /packages/{name}/versions is being handled.
IdleVersionDelete ==
    [pc |-> "idle", specs |-> <<>>, to_delete |-> {}, before |-> {}, deleted_count |-> 0,
     result |-> "none"]

\* No DELETE /packages/{name} is being handled.
IdleDeleter == [pc |-> "idle", package |-> NoPackage, result |-> "none"]

\* run_service: the stores, the cleanup task and the actor, under a
\* configuration with the given server.max_payload_size.
Service(limit, ids) ==
    /\ ActorInit
    /\ UploadInit
    /\ StorageInit
    /\ SessionInit
    /\ max_payload_size = limit
    /\ uuids = ids
    /\ auto_cleanup_enabled = default_auto_cleanup_enabled
    /\ errors = {}
    /\ versionDelete = IdleVersionDelete
    /\ db = NoDb
    /\ served = NotServed
    /\ deleter = IdleDeleter
    /\ stored = {}

\* The service when one upload_id is in play.
Construct(limit) == Service(limit, UploadIds)

\* No function is called on its own.
NoCall == [fn |-> "none", args |-> <<>>, returned |-> FALSE, ret |-> <<>>]

Init == Construct(MaxFileSize) /\ call = NoCall

\* The handler returns: the task is free again, the response goes out.
Finish(t, kind, why) ==
    /\ task' = [task EXCEPT ![t] = IdleTask]
    /\ response' = [op |-> task[t].op, kind |-> kind, why |-> why]

\* The task goes on to its next suspension point.
Goto(t, pc) ==
    /\ task' = [task EXCEPT ![t].pc = pc]
    /\ UNCHANGED response

\* initiate_upload, its validation of size and chunk size.
initiate_check(size, chunk_size) ==
    IF size = 0 THEN "zero size"
    ELSE IF chunk_size = 0 \/ chunk_size > size THEN "chunk size"
    ELSE "ok"

\* initiate_upload and create_session: a fresh id, its staging directory, its
\* entry of the session map.  A client that declares a sha256 declares the
\* digest of the all-ones file of the declared size, in lower or upper case.
\* The id is Uuid::new_v4(): no request in flight names it.
initiate_upload ==
    \E id \in uuids \ issued, size \in 0..MaxFileSize, chunk_size \in 0..MaxFileSize :
      \E sha \in {NoSha, SomeSha(LowerHex(Sha256(Fill(1, size)))),
                 SomeSha(UpperHex(Sha256(Fill(1, size))))} :
        /\ \A t \in Tasks : task[t].id # id
        /\ size <= max_payload_size
        /\ initiate_check(size, chunk_size) = "ok"
        /\ issued' = issued \cup {id}
        /\ staging' = (id :> EmptyDir) @@ staging
        /\ sessions' = (id :> NewSession(size, chunk_size, sha, utc)) @@ sessions
        /\ UNCHANGED <<archives, records, task, ops, response, acked, actorSide, storeSide, sessionSide, otherSide>>

\* A request reaches a free task: its path and body are read.
Receive(t, op, id, n, body) ==
    /\ task[t].pc = "idle"
    /\ ops < MaxOps
    /\ ops' = ops + 1
    /\ task' = [task EXCEPT ![t] =
            [IdleTask EXCEPT !.op = op, !.pc = "start", !.id = id, !.n = n,
                             !.body = body, !.ackedBefore = acked[id]]]
    /\ UNCHANGED <<sessions, staging, issued, archives, records, response, acked,
                   actorSide, storeSide, sessionSide, otherSide>>

\* POST /packages/upload/{id}/chunks/{n} with a body.
recv_upload_chunk ==
    \E t \in Tasks, id \in uuids, n \in 0..MaxFileSize, body \in Bodies :
        Receive(t, "store_chunk", id, n, body)

\* POST /packages/upload/{id}/complete with a manifest of n chunks.
recv_complete_upload ==
    \E t \in Tasks, id \in uuids, n \in 0..MaxFileSize :
        Receive(t, "complete", id, n, <<>>)

\* upload_chunk (get_session, is_expired), then store_chunk up to its
\* validation: get_session (a clone of the map's entry), chunk number, body
\* length.
upload_chunk ==
    \E t \in Tasks :
        /\ task[t].op = "store_chunk"
        /\ task[t].pc = "start"
        /\ IF task[t].id \notin DOMAIN sessions
           THEN Finish(t, "InvalidPackage", "session not found")
           ELSE LET s == sessions[task[t].id]
                    verdict == store_chunk_check(s, task[t].n, Len(task[t].body)) IN
                IF is_expired(s, utc)
                THEN Finish(t, "InvalidPackage", "session expired")
                ELSE IF verdict # "ok"
                THEN Finish(t, "InvalidPackage", verdict)
                ELSE /\ task' = [task EXCEPT ![t].pc = "create", ![t].snap = s]
                     /\ UNCHANGED response
        /\ UNCHANGED <<sessions, staging, issued, archives, records, ops, acked, actorSide, storeSide, sessionSide, otherSide>>

\* store_chunk: fs::File::create(chunk_path) truncates the chunk file.
store_chunk_create ==
    \E t \in Tasks :
        /\ task[t].op = "store_chunk"
        /\ task[t].pc = "create"
        /\ LET id == task[t].id
               n == task[t].n IN
           IF id \notin DOMAIN staging
           THEN /\ Finish(t, "Io", "chunk file")
                /\ UNCHANGED staging
           ELSE /\ staging' = [staging EXCEPT ![id].chunks = (n :> <<>>) @@ @]
                /\ Goto(t, "write")
        /\ UNCHANGED <<sessions, issued, archives, records, ops, acked, actorSide, storeSide, sessionSide, otherSide>>

\* store_chunk: file.write_all(data), file.sync_all() through the open handle.
store_chunk_write ==
    \E t \in Tasks :
        /\ task[t].op = "store_chunk"
        /\ task[t].pc = "write"
        /\ LET id == task[t].id
               n == task[t].n IN
           IF id \in DOMAIN staging /\ n \in DOMAIN staging[id].chunks
           THEN staging' = [staging EXCEPT ![id].chunks[n] = WriteAt(@, 0, task[t].body)]
           ELSE UNCHANGED staging
        /\ Goto(t, "update_meta")
        /\ UNCHANGED <<sessions, issued, archives, records, ops, acked, actorSide, storeSide, sessionSide, otherSide>>

\* update_session: fs::write(metadata.json) of the task's copy of the session.
update_session_metadata ==
    \E t \in Tasks :
        /\ task[t].op = "store_chunk"
        /\ task[t].pc = "update_meta"
        /\ IF task[t].id \notin DOMAIN staging
           THEN Finish(t, "Io", "metadata.json")
           ELSE Goto(t, "update_map")
        /\ UNCHANGED <<sessions, staging, issued, archives, records, ops, acked, actorSide, storeSide, sessionSide, otherSide>>

\* The task's copy of the session with its chunk number inserted:
\* session.uploaded_chunks.insert(chunk_number).
updated_session(t) ==
    [task[t].snap EXCEPT !.uploaded_chunks = @ \cup {task[t].n}]

\* An update_session that puts a map of the one session in place of the map.
update_session_replace_map ==
    \E t \in Tasks :
        /\ task[t].op = "store_chunk"
        /\ task[t].pc = "update_map"
        /\ sessions' = (task[t].id :> updated_session(t))
        /\ acked' = [acked EXCEPT ![task[t].id] = @ \cup {task[t].n}]
        /\ Finish(t, "Ok", "chunk stored")
        /\ UNCHANGED <<staging, issued, archives, records, ops, actorSide, storeSide, sessionSide, otherSide>>

\* update_session: sessions.write().await.insert(upload_id, session); then
\* store_chunk returns Ok(checksum).
update_session_insert ==
    \E t \in Tasks :
        /\ task[t].op = "store_chunk"
        /\ task[t].pc = "update_map"
        /\ sessions' = (task[t].id :> updated_session(t)) @@ sessions
        /\ acked' = [acked EXCEPT ![task[t].id] = @ \cup {task[t].n}]
        /\ Finish(t, "Ok", "chunk stored")
        /\ UNCHANGED <<staging, issued, archives, records, ops, actorSide, storeSide, sessionSide, otherSide>>

\* A complete_upload that drops the session it rejects as incomplete.
complete_upload_dropping_session ==
    \E t \in Tasks :
        /\ task[t].op = "complete"
        /\ task[t].pc = "start"
        /\ IF task[t].id \notin DOMAIN sessions
           THEN Finish(t, "InvalidPackage", "session not found")
           ELSE LET s == sessions[task[t].id] IN
                IF is_expired(s, utc)
                THEN Finish(t, "InvalidPackage", "session expired")
                ELSE IF ~is_complete(s)
                THEN Finish(t, "InvalidPackage", "missing chunks")
                ELSE IF task[t].n # s.total_chunks
                THEN Finish(t, "InvalidPackage", "chunk count mismatch")
                ELSE /\ task' = [task EXCEPT ![t].pc = "assemble", ![t].snap = s]
                     /\ UNCHANGED response
        /\ sessions' = IF task[t].id \in DOMAIN sessions /\ ~is_complete(sessions[task[t].id])
                       THEN remove(sessions, task[t].id)
                       ELSE sessions
        /\ UNCHANGED <<staging, issued, archives, records, ops, acked, actorSide, storeSide, sessionSide, otherSide>>

\* complete_upload up to "Verify chunk count matches": get_session, is_expired,
\* the completeness of uploaded_chunks, the length of the manifest.
complete_upload ==
    \E t \in Tasks :
        /\ task[t].op = "complete"
        /\ task[t].pc = "start"
        /\ IF task[t].id \notin DOMAIN sessions
           THEN Finish(t, "InvalidPackage", "session not found")
           ELSE LET s == sessions[task[t].id] IN
                IF is_expired(s, utc)
                THEN Finish(t, "InvalidPackage", "session expired")
                ELSE IF ~is_complete(s)
                THEN Finish(t, "InvalidPackage", "missing chunks")
                ELSE IF task[t].n # s.total_chunks
                THEN Finish(t, "InvalidPackage", "chunk count mismatch")
                ELSE /\ task' = [task EXCEPT ![t].pc = "assemble", ![t].snap = s]
                     /\ UNCHANGED response
        /\ UNCHANGED <<sessions, staging, issued, archives, records, ops, acked, actorSide, storeSide, sessionSide, otherSide>>

\* assemble_chunks up to the loop: get_session again, is_complete, and
\* fs::File::create(assembled.pkg.tar.zst), which truncates the file.
assemble_chunks ==
    \E t \in Tasks :
        /\ task[t].op = "complete"
        /\ task[t].pc = "assemble"
        /\ LET id == task[t].id IN
           IF id \notin DOMAIN sessions
           THEN /\ Finish(t, "InvalidPackage", "session not found")
                /\ UNCHANGED staging
           ELSE IF ~is_complete(sessions[id])
           THEN /\ Finish(t, "InvalidPackage", "missing chunks")
                /\ UNCHANGED staging
           ELSE IF id \notin DOMAIN staging
           THEN /\ Finish(t, "Io", "assembled file")
                /\ UNCHANGED staging
           ELSE /\ staging' = [staging EXCEPT ![id].assembled = File(<<>>)]
                /\ task' = [task EXCEPT ![t].pc = "read", ![t].snap = sessions[id],
                                        ![t].n = 1, ![t].total_size = 0,
                                        ![t].hasher = Sha256New]
                /\ UNCHANGED response
        /\ UNCHANGED <<sessions, issued, archives, records, ops, acked, actorSide, storeSide, sessionSide, otherSide>>

\* assemble_chunks, one turn of "Stream chunks to output file": read chunk n,
\* feed the hasher, write the chunk at the output handle's position.
assemble_read_chunk ==
    \E t \in Tasks :
        /\ task[t].op = "complete"
        /\ task[t].pc = "read"
        /\ LET id == task[t].id
               n == task[t].n IN
           IF id \notin DOMAIN staging \/ n \notin DOMAIN staging[id].chunks
           THEN /\ Finish(t, "Io", "chunk file")
                /\ UNCHANGED staging
           ELSE LET data == staging[id].chunks[n] IN
                /\ staging' =
                      IF staging[id].assembled.exists
                      THEN [staging EXCEPT ![id].assembled.data =
                                              WriteAt(@, task[t].total_size, data)]
                      ELSE staging
                /\ task' = [task EXCEPT
                                ![t].hasher = Sha256Update(@, data),
                                ![t].total_size = @ + Len(data),
                                ![t].n = n + 1,
                                ![t].pc = IF n = task[t].snap.total_chunks
                                          THEN "verify" ELSE "read"]
                /\ UNCHANGED response
        /\ UNCHANGED <<sessions, issued, archives, records, ops, acked, actorSide, storeSide, sessionSide, otherSide>>

\* assemble_chunks after the loop: sync_all, "Verify size", "Verify SHA256".
assemble_verify ==
    \E t \in Tasks :
        /\ task[t].op = "complete"
        /\ task[t].pc = "verify"
        /\ IF ~size_ok(task[t].snap, task[t].total_size)
           THEN Finish(t, "InvalidPackage", "size mismatch")
           ELSE IF ~checksum_ok(task[t].snap, task[t].hasher)
           THEN Finish(t, "InvalidPackage", "checksum mismatch")
           ELSE Goto(t, "extract")
        /\ UNCHANGED <<sessions, staging, issued, archives, records, ops, acked, actorSide, storeSide, sessionSide, otherSide>>

\* complete_upload, the blocking task: read the assembled file, extract
\* PKGINFO, calculate_sha256; then "Create package record".
read_assembled ==
    \E t \in Tasks :
        /\ task[t].op = "complete"
        /\ task[t].pc = "extract"
        /\ LET id == task[t].id IN
           IF id \notin DOMAIN staging \/ ~staging[id].assembled.exists
           THEN Finish(t, "Io", "assembled file")
           ELSE LET data == staging[id].assembled.data
                    info == extract_pkginfo(data) IN
                IF ~info.ok
                THEN Finish(t, "InvalidPackage", "invalid archive")
                ELSE /\ task' = [task EXCEPT
                            ![t].pc = "store",
                            ![t].package = [name |-> info.pkgname,
                                            filename |-> canonical_filename(info),
                                            sha256 |-> LowerHex(Sha256(data)),
                                            size |-> Len(data)]]
                     /\ UNCHANGED response
        /\ UNCHANGED <<sessions, staging, issued, archives, records, ops, acked, actorSide, storeSide, sessionSide, otherSide>>

\* A store_package_from_path that copies without looking at the destination.
store_package_from_path_unchecked ==
    \E t \in Tasks :
        /\ task[t].op = "complete"
        /\ task[t].pc = "store"
        /\ Goto(t, "copy")
        /\ UNCHANGED <<sessions, staging, issued, archives, records, ops, acked, actorSide, storeSide, sessionSide, otherSide>>

\* store_package_from_path, "Check if destination already exists".
store_package_from_path ==
    \E t \in Tasks :
        /\ task[t].op = "complete"
        /\ task[t].pc = "store"
        /\ IF task[t].package.filename \in DOMAIN archives
           THEN Finish(t, "AlreadyExists", "package exists")
           ELSE Goto(t, "copy")
        /\ UNCHANGED <<sessions, staging, issued, archives, records, ops, acked, actorSide, storeSide, sessionSide, otherSide>>

\* store_package_from_path, tokio::fs::copy(source_path, pkg_path).
store_copy ==
    \E t \in Tasks :
        /\ task[t].op = "complete"
        /\ task[t].pc = "copy"
        /\ LET id == task[t].id IN
           IF id \notin DOMAIN staging \/ ~staging[id].assembled.exists
           THEN /\ Finish(t, "Io", "assembled file")
                /\ UNCHANGED archives
           ELSE /\ archives' = (task[t].package.filename :> staging[id].assembled.data)
                                    @@ archives
                /\ Goto(t, "metadata")
        /\ UNCHANGED <<sessions, staging, issued, records, ops, acked, actorSide, storeSide, sessionSide, otherSide>>

\* store_package_from_path, "Write metadata": metadata/{name}.json.
store_metadata ==
    \E t \in Tasks :
        /\ task[t].op = "complete"
        /\ task[t].pc = "metadata"
        /\ records' = (task[t].package.name :> task[t].package) @@ records
        /\ Goto(t, "regenerate")
        /\ UNCHANGED <<sessions, staging, issued, archives, ops, acked, actorSide, storeSide, sessionSide, otherSide>>

\* complete_upload: regenerate_repo_db(...).await? ; its error is returned.
complete_regenerate ==
    \E t \in Tasks, failed \in BOOLEAN :
        /\ task[t].op = "complete"
        /\ task[t].pc = "regenerate"
        /\ IF failed
           THEN Finish(t, "Io", "regenerate_repo_db")
           ELSE Goto(t, IF auto_cleanup_enabled THEN "cleanup" ELSE "delete_check")
        /\ UNCHANGED <<sessions, staging, issued, archives, records, ops, acked, actorSide, storeSide, sessionSide, otherSide>>

\* cleanup_old_versions returned an error and the handler ended with it.
cleanup_failed_returned(t) ==
    /\ Finish(t, "Io", "cleanup_old_versions")
    /\ UNCHANGED errors

\* .inspect_err(|e| tracing::error!(...)).unwrap_or_default(): the error of
\* cleanup_old_versions is logged and the handler goes on with no deletions.
cleanup_failed(t) ==
    /\ Goto(t, "delete_check")
    /\ errors' = errors \cup {"Failed to cleanup old package versions"}

\* complete_upload, "Auto-cleanup old versions if enabled":
\* cleanup_old_versions lists the records of the repo (an error of the
\* listing is the function's error), keeps those of the package's name and
\* returns no deletions for one record or none; else it deletes the versions
\* retention does not keep, whichever they are, with delete_package, whose
\* first error ends it. The regeneration after deletions only logs its error.
complete_auto_cleanup ==
    \E t \in Tasks, failed \in BOOLEAN :
        /\ task[t].op = "complete"
        /\ task[t].pc = "cleanup"
        /\ LET packages == {n \in DOMAIN records : records[n].name = task[t].package.name} IN
           IF failed
           THEN /\ cleanup_failed(t)
                /\ \E gone \in (IF Cardinality(packages) <= 1 THEN {{}} ELSE SUBSET packages) :
                      /\ archives' = [f \in DOMAIN archives \ {records[n].filename : n \in gone}
                                        |-> archives[f]]
                      /\ records' = [n \in DOMAIN records \ gone |-> records[n]]
           ELSE /\ Goto(t, "delete_check")
                /\ \E to_delete \in (IF Cardinality(packages) <= 1 THEN {{}}
                                                                   ELSE SUBSET packages) :
                      /\ archives' = [f \in DOMAIN archives
                                             \ {records[n].filename : n \in to_delete}
                                        |-> archives[f]]
                      /\ records' = [n \in DOMAIN records \ to_delete |-> records[n]]
                      /\ errors' \in IF to_delete = {}
                                    THEN {errors}
                                    ELSE {errors, errors \cup {"Failed to regenerate repository database after cleanup"}}
        /\ UNCHANGED <<sessions, staging, issued, ops, acked, actorSide, storeSide, sessionSide,
                       configSide, dbSide, versionSide, fnSide, repoSide>>

\* delete_session is entered by abort_upload (first thing) and by
\* complete_upload (last thing).
InDeleteSession(t, pc) ==
    \/ task[t].op = "abort" /\ task[t].pc = (IF pc = "delete_check" THEN "start" ELSE pc)
    \/ task[t].op = "complete" /\ task[t].pc = pc

\* delete_session fails: abort_upload returns the error, complete_upload logs
\* it and returns 201 with the package.
DeleteFailed(t) ==
    IF task[t].op = "abort"
    THEN Finish(t, "Io", "remove_dir_all")
    ELSE Finish(t, "Ok", "package created")

\* delete_session: upload_dir.exists() and the count of the chunk files.
delete_session_exists ==
    \E t \in Tasks :
        /\ InDeleteSession(t, "delete_check")
        /\ Goto(t, IF task[t].id \in DOMAIN staging THEN "delete_dir" ELSE "delete_map")
        /\ UNCHANGED <<sessions, staging, issued, archives, records, ops, acked, actorSide, storeSide, sessionSide, otherSide>>

\* delete_session: fs::remove_dir_all(upload_dir), an error when the directory
\* is gone by now.
delete_session_dir ==
    \E t \in Tasks :
        /\ InDeleteSession(t, "delete_dir")
        /\ IF task[t].id \in DOMAIN staging
           THEN /\ staging' = remove(staging, task[t].id)
                /\ Goto(t, "delete_map")
           ELSE /\ DeleteFailed(t)
                /\ UNCHANGED staging
        /\ UNCHANGED <<sessions, issued, archives, records, ops, acked, actorSide, storeSide, sessionSide, otherSide>>

\* delete_session: sessions.write().await.remove(upload_id), Ok; the handler
\* returns 200 (abort_upload) or 201 with the package (complete_upload).
delete_session_entry ==
    \E t \in Tasks :
        /\ InDeleteSession(t, "delete_map")
        /\ sessions' = remove(sessions, task[t].id)
        /\ destroyed' = destroyed \cup ({task[t].id} \cap issued)
        /\ Finish(t, "Ok", IF task[t].op = "abort" THEN "upload aborted"
                                                   ELSE "package created")
        /\ UNCHANGED <<staging, issued, archives, records, ops, acked, actorSide, storeSide, utc, sweep, otherSide>>

UploadNext ==
    \/ initiate_upload
    \/ recv_upload_chunk
    \/ recv_complete_upload
    \/ upload_chunk
    \/ store_chunk_create
    \/ store_chunk_write
    \/ update_session_metadata
    \/ update_session_insert
    \/ complete_upload
    \/ assemble_chunks
    \/ assemble_read_chunk
    \/ assemble_verify
    \/ read_assembled
    \/ store_package_from_path
    \/ store_copy
    \/ store_metadata
    \/ complete_regenerate
    \/ complete_auto_cleanup
    \/ delete_session_exists
    \/ delete_session_dir
    \/ delete_session_entry

\* The upload engine with its request tasks.
SpecUpload == Init /\ [][UploadNext]_vars

\* ---------------------------------------------------------------------------
\* Session lifetime: the wall clock, the signature and abort handlers and the
\* cleanup task.
\* ---------------------------------------------------------------------------

\* Utc::now() moves on.
UtcTick ==
    /\ utc < MaxUtc
    /\ utc' = utc + 1
    /\ UNCHANGED <<uploadSide, actorSide, storeSide, sweep, destroyed, otherSide>>

SignatureBodies == {Fill(1, 1)}

\* POST /packages/upload/{id}/signature with a body.
recv_upload_signature ==
    \E t \in Tasks, id \in uuids, body \in SignatureBodies :
        Receive(t, "upload_signature", id, 0, body)

\* DELETE /packages/upload/{id}.
recv_abort_upload ==
    \E t \in Tasks, id \in uuids :
        Receive(t, "abort", id, 0, <<>>)

\* upload_signature: get_session, is_expired.
upload_signature ==
    \E t \in Tasks :
        /\ task[t].op = "upload_signature"
        /\ task[t].pc = "start"
        /\ IF task[t].id \notin DOMAIN sessions
           THEN Finish(t, "InvalidPackage", "not found")
           ELSE IF is_expired(sessions[task[t].id], utc)
                THEN Finish(t, "InvalidPackage", "session expired")
                ELSE Goto(t, "sig_write")
        /\ UNCHANGED <<sessions, staging, issued, archives, records, ops, acked, actorSide, storeSide, sessionSide, otherSide>>

\* store_signature: File::create(signature.sig), write_all, sync_all.
store_signature ==
    \E t \in Tasks :
        /\ task[t].op = "upload_signature"
        /\ task[t].pc = "sig_write"
        /\ IF task[t].id \in DOMAIN staging
           THEN /\ staging' = [staging EXCEPT ![task[t].id].signature = File(task[t].body)]
                /\ Finish(t, "Ok", "signature stored")
           ELSE /\ Finish(t, "Io", "create signature")
                /\ UNCHANGED staging
        /\ UNCHANGED <<sessions, issued, archives, records, ops, acked, actorSide, storeSide, sessionSide, otherSide>>

\* The cleanup task goes on with the next expired id, or back to sleep.
SweepOn(work) ==
    [pc |-> IF work = {} THEN "sleep" ELSE "check", work |-> work, cur |-> "none"]

\* cleanup_expired: under the read lock, the ids of the sessions that are
\* expired now.
cleanup_expired ==
    /\ sweep.pc = "sleep"
    /\ sweep' = SweepOn({id \in DOMAIN sessions : is_expired(sessions[id], utc)})
    /\ UNCHANGED <<uploadSide, actorSide, storeSide, utc, destroyed, otherSide>>

\* cleanup_expired's delete_session: upload_dir.exists().
sweep_delete_exists ==
    /\ sweep.pc = "check"
    /\ \E id \in sweep.work :
        sweep' = [pc |-> IF id \in DOMAIN staging THEN "dir" ELSE "map",
                  work |-> sweep.work \ {id}, cur |-> id]
    /\ UNCHANGED <<uploadSide, actorSide, storeSide, utc, destroyed, otherSide>>

\* cleanup_expired's delete_session: remove_dir_all; its error is logged and
\* the sweep goes on.
sweep_delete_dir ==
    /\ sweep.pc = "dir"
    /\ IF sweep.cur \in DOMAIN staging
       THEN /\ staging' = remove(staging, sweep.cur)
            /\ sweep' = [sweep EXCEPT !.pc = "map"]
       ELSE /\ sweep' = SweepOn(sweep.work)
            /\ UNCHANGED staging
    /\ UNCHANGED <<sessions, issued, archives, records, task, ops, response, acked,
                   actorSide, storeSide, utc, destroyed, otherSide>>

\* cleanup_expired's delete_session: the removal from the map.
sweep_delete_entry ==
    /\ sweep.pc = "map"
    /\ sessions' = remove(sessions, sweep.cur)
    /\ destroyed' = destroyed \cup {sweep.cur}
    /\ sweep' = SweepOn(sweep.work)
    /\ UNCHANGED <<staging, issued, archives, records, task, ops, response, acked,
                   actorSide, storeSide, utc, otherSide>>

SessionNext ==
    \/ UploadNext
    \/ UtcTick
    \/ recv_upload_signature
    \/ recv_abort_upload
    \/ upload_signature
    \/ store_signature
    \/ cleanup_expired
    \/ sweep_delete_exists
    \/ sweep_delete_dir
    \/ sweep_delete_entry

\* A service configured to accept files of at most MaxSessionPayload bytes.
InitSession == Construct(MaxSessionPayload) /\ call = NoCall

SpecSession == InitSession /\ [][SessionNext]_vars

\* The same service with two upload_ids in play, and clients that send at most
\* MaxTwoOps requests, each for one of the two ids, with a one-byte chunk or
\* signature.
MaxTwoOps == 2

InitTwoSessions == Service(MaxSessionPayload, TwoUploadIds) /\ call = NoCall

two_recv ==
    \E t \in Tasks, id \in uuids, n \in 0..MaxSessionPayload :
      \E op \in {"store_chunk", "complete", "upload_signature", "abort"} :
        /\ ops < MaxTwoOps
        /\ op \in {"upload_signature", "abort"} => n = 0
        /\ Receive(t, op, id, n, IF op \in {"store_chunk", "upload_signature"}
                                 THEN Fill(1, 1) ELSE <<>>)

TwoSessionsNext ==
    \/ two_recv
    \/ initiate_upload
    \/ upload_chunk
    \/ store_chunk_create
    \/ store_chunk_write
    \/ update_session_metadata
    \/ update_session_insert
    \/ complete_upload
    \/ assemble_chunks
    \/ assemble_read_chunk
    \/ assemble_verify
    \/ read_assembled
    \/ store_package_from_path
    \/ store_copy
    \/ store_metadata
    \/ complete_regenerate
    \/ complete_auto_cleanup
    \/ delete_session_exists
    \/ delete_session_dir
    \/ delete_session_entry
    \/ UtcTick
    \/ upload_signature
    \/ store_signature
    \/ cleanup_expired
    \/ sweep_delete_exists
    \/ sweep_delete_dir
    \/ sweep_delete_entry

SpecTwoSessions == InitTwoSessions /\ [][TwoSessionsNext]_vars

\* =========================================================================
\* Storage::store_package (src/storage/mod.rs) and its concurrent callers.
\* =========================================================================
\* The archives a caller may hand to store_package: they decode.
StoreBodies ==
    {b \in UNION {[1..l -> Bytes] : l \in 1..MaxFileSize} : extract_pkginfo(b).ok}

\* An open with create(true).truncate(true) in place of create_new(true).
open_create_truncate(files, path) ==
    [err |-> FALSE, files |-> (path :> <<>>) @@ files]

\* OpenOptions::new().write(true).create_new(true).open(pkg_path): one system
\* call that fails with AlreadyExists when the path exists and creates an empty
\* file when it does not.
open_create_new(files, path) ==
    IF path \in DOMAIN files
    THEN [err |-> TRUE, files |-> files]
    ELSE [err |-> FALSE, files |-> (path :> <<>>) @@ files]

\* Another caller is inside store_package for the same filename.
InFlightOn(filename, c) ==
    \E d \in StoreCallers \ {c} :
        /\ storeCall[d].pc \in {"open", "write", "metadata"}
        /\ storeCall[d].package.filename = filename

\* store_package is called: package_path, metadata_path, create_dir_all.
store_package ==
    \E c \in StoreCallers, data \in StoreBodies :
        /\ storeCall[c].pc = "idle"
        /\ LET info == extract_pkginfo(data) IN
           storeCall' = [storeCall EXCEPT ![c] =
               [IdleCall EXCEPT !.pc = "open", !.data = data,
                                !.package = [name |-> info.pkgname,
                                             filename |-> canonical_filename(info),
                                             sha256 |-> LowerHex(Sha256(data)),
                                             size |-> Len(data)]]]
        /\ UNCHANGED <<uploadSide, actorSide, sessionSide, otherSide>>

\* store_package, the exclusive open and its map_err.
store_package_open ==
    \E c \in StoreCallers :
        /\ storeCall[c].pc = "open"
        /\ LET filename == storeCall[c].package.filename
               opened == open_create_new(archives, filename) IN
           /\ archives' = opened.files
           /\ storeCall' = [storeCall EXCEPT
                  ![c].overlapped = InFlightOn(filename, c),
                  ![c].pc = IF opened.err THEN "done" ELSE "write",
                  ![c].result = IF opened.err THEN "AlreadyExists" ELSE "none"]
        /\ UNCHANGED <<sessions, staging, issued, records, task, ops, response, acked,
                       actorSide, sessionSide, otherSide>>

\* store_package: file.write_all(data), file.sync_all().
store_package_write ==
    \E c \in StoreCallers :
        /\ storeCall[c].pc = "write"
        /\ LET filename == storeCall[c].package.filename IN
           archives' = IF filename \in DOMAIN archives
                       THEN [archives EXCEPT ![filename] = WriteAt(@, 0, storeCall[c].data)]
                       ELSE archives
        /\ storeCall' = [storeCall EXCEPT ![c].pc = "metadata"]
        /\ UNCHANGED <<sessions, staging, issued, records, task, ops, response, acked,
                       actorSide, sessionSide, otherSide>>

\* store_package, "Write metadata", then Ok(()).
store_package_metadata ==
    \E c \in StoreCallers :
        /\ storeCall[c].pc = "metadata"
        /\ records' = (storeCall[c].package.name :> storeCall[c].package) @@ records
        /\ storeCall' = [storeCall EXCEPT ![c].pc = "done", ![c].result = "Ok"]
        /\ stored' = stored \cup {storeCall[c].package.filename}
        /\ UNCHANGED <<sessions, staging, issued, archives, task, ops, response, acked,
                       actorSide, sessionSide, configSide, dbSide, versionSide, logSide, fnSide, deleter>>

StorageNext ==
    \/ store_package
    \/ store_package_open
    \/ store_package_write
    \/ store_package_metadata

\* Storage with callers of store_package.
SpecStorage == Init /\ [][StorageNext]_vars

\* ---------------------------------------------------------------------------
\* DELETE /packages/{name} next to the callers of store_package.
\* ---------------------------------------------------------------------------

PackageNames == {"pkg"}

\* delete_package (handler): load_package reads metadata/{name}.json, or
\* PackageNotFound when there is none.
delete_load_package ==
    \E name \in PackageNames :
        /\ deleter.pc = "idle"
        /\ deleter' = IF name \in DOMAIN records
                      THEN [pc |-> "remove_file", package |-> records[name],
                            result |-> "none"]
                      ELSE [IdleDeleter EXCEPT !.result = "PackageNotFound"]
        /\ UNCHANGED <<actorSide, uploadSide, storeSide, sessionSide, configSide, dbSide, versionSide, logSide, fnSide,
                       stored>>

\* Storage::delete_package, "Delete package file": remove_file(pkg_path) if it
\* exists.
delete_package_file ==
    /\ deleter.pc = "remove_file"
    /\ archives' = remove(archives, deleter.package.filename)
    /\ deleter' = [deleter EXCEPT !.pc = "remove_metadata"]
    /\ UNCHANGED <<sessions, staging, issued, records, task, ops, response, acked,
                   actorSide, storeSide, sessionSide, configSide, dbSide, versionSide, logSide, fnSide, stored>>

\* Storage::delete_package, "Delete metadata": remove_file(meta_path) if it
\* exists, of metadata/{name}.json; then the handler's request_update and 204.
delete_package_metadata ==
    /\ deleter.pc = "remove_metadata"
    /\ records' = remove(records, deleter.package.name)
    /\ deleter' = [IdleDeleter EXCEPT !.result = "NoContent"]
    /\ stored' = stored \ {deleter.package.filename}
    /\ UNCHANGED <<sessions, staging, issued, archives, task, ops, response, acked,
                   actorSide, storeSide, sessionSide, configSide, dbSide, versionSide, logSide, fnSide>>

RepoNext ==
    \/ StorageNext
    \/ delete_load_package
    \/ delete_package_file
    \/ delete_package_metadata

SpecRepo == Init /\ [][RepoNext]_vars

ActorNext ==
    \/ Tick
    \/ request_update
    \/ force_rebuild
    \/ shutdown
    \/ DropHandles
    \/ run_RequestUpdate
    \/ run_ForceRebuild
    \/ run_Shutdown
    \/ run_None
    \/ process_ready_updates
    \/ regenerate_db_done

\* The update actor and the handlers that send to it.
SpecActor == Init /\ [][ActorNext]_vars

WritersNext ==
    \/ ActorNext
    \/ direct_regen_start
    \/ direct_regen_done

\* The actor together with the handlers that regenerate a database themselves.
SpecWriters == Init /\ [][WritersNext]_vars

\* ---------------------------------------------------------------------------
\* The actor under an unending stream of requests.  The clock is not bounded
\* here: instants are kept relative to now, which stays 0, and the passing of
\* one time unit moves every stored instant one unit into the past.  An
\* instant more than Debounce in the past is kept at Debounce in the past:
\* every duration the actor computes from it is the same.  No history is kept.
\* ---------------------------------------------------------------------------

\* An instant, one time unit later.
Aged(instant) == Max(instant - 1, now - Debounce)

\* One time unit passes. A sleep that ends later than a debounce window from
\* now (the idle sleep) either still ends later than that, or now ends a
\* debounce window from now.
Elapse ==
    /\ pending' = [k \in DOMAIN pending |->
                      [first_requested |-> Aged(pending[k].first_requested),
                       last_requested |-> Aged(pending[k].last_requested)]]
    /\ deadline' \in IF deadline > now + Debounce
                      THEN {deadline, now + Debounce}
                      ELSE {Max(deadline - 1, now)}
    /\ UNCHANGED <<uploadSide, storeSide, sessionSide, otherSide, now, chanVars, actorPc,
                   actorCur, actorWork, actorMode, timerArmed, direct, histVars>>

\* request_update(k): tx.send(RequestUpdate(k)).await, as often as callers like.
live_request_update ==
    \E k \in Keys :
        /\ Len(inbox) < MaxInbox
        /\ inbox' = Append(inbox, RequestUpdate(k))
        /\ UNCHANGED <<uploadSide, storeSide, sessionSide, otherSide, now, closed, sent,
                       actorVars, direct, histVars>>

\* msg = Some(RequestUpdate(key)) => self.handle_request(key)
live_run_RequestUpdate ==
    /\ actorPc = "select"
    /\ inbox # <<>>
    /\ Head(inbox).type = "RequestUpdate"
    /\ pending' = handle_request(pending, Head(inbox).key, now)
    /\ inbox' = Tail(inbox)
    /\ LoopAgain(pending', inbox')
    /\ UNCHANGED <<uploadSide, storeSide, sessionSide, otherSide, now, closed, sent, direct,
                   histVars>>

\* regenerate_db(key) begins.
LiveRegen(k, rest) ==
    /\ pending' = remove(pending, k)
    /\ actorPc' = "regen"
    /\ actorCur' = k
    /\ actorWork' = rest
    /\ actorMode' = "ready"
    /\ UNCHANGED <<deadline, timerArmed>>

\* _ = sleep(timeout) => self.process_ready_updates().await
live_process_ready_updates ==
    /\ actorPc = "select"
    /\ timerArmed
    /\ now >= deadline
    /\ LET ready == ready_keys(pending, now) IN
       IF ready = {}
       THEN LoopAgain(pending, inbox) /\ UNCHANGED pending
       ELSE \E k \in ready : LiveRegen(k, ready \ {k})
    /\ UNCHANGED <<uploadSide, storeSide, sessionSide, otherSide, now, chanVars, direct,
                   histVars>>

\* regenerate_db(key) returns; the for loop of process_ready_updates goes on.
live_regenerate_db_done ==
    /\ actorPc = "regen"
    /\ IF actorWork # {}
       THEN \E k \in actorWork : LiveRegen(k, actorWork \ {k})
       ELSE LoopAgain(pending, inbox) /\ UNCHANGED pending
    /\ UNCHANGED <<uploadSide, storeSide, sessionSide, otherSide, now, chanVars, direct,
                   histVars>>

\* The steps of the actor's task.
LiveActor ==
    \/ live_run_RequestUpdate
    \/ live_process_ready_updates
    \/ live_regenerate_db_done

LiveNext ==
    \/ Elapse
    \/ live_request_update
    \/ live_run_RequestUpdate
    \/ live_process_ready_updates
    \/ live_regenerate_db_done

\* msg = Some(ForceRebuild(key)) => self.handle_force_rebuild(key).await
live_run_ForceRebuild ==
    /\ actorPc = "select"
    /\ inbox # <<>>
    /\ Head(inbox).type = "ForceRebuild"
    /\ pending' = handle_force_rebuild(pending, Head(inbox).key)
    /\ inbox' = Tail(inbox)
    /\ actorPc' = "regen"
    /\ actorCur' = Head(inbox).key
    /\ actorWork' = {}
    /\ actorMode' = "force"
    /\ UNCHANGED <<uploadSide, storeSide, sessionSide, otherSide, now, closed, sent, direct,
                   deadline, timerArmed, histVars>>

\* The actor with callers that send at most MaxSends requests and rebuilds.
OrderNext ==
    \/ Elapse
    \/ request_update
    \/ force_rebuild
    \/ live_run_RequestUpdate
    \/ live_run_ForceRebuild
    \/ live_process_ready_updates
    \/ live_regenerate_db_done

\* Time passes and the runtime runs the actor's task whenever it can take a
\* step.
SpecOrder ==
    /\ Init
    /\ [][OrderNext]_vars
    /\ WF_vars(Elapse)
    /\ WF_vars(LiveActor \/ live_run_ForceRebuild)

\* Time passes and the runtime runs the actor's task whenever it can take a
\* step; nothing is assumed of the callers.
SpecLive ==
    /\ Init
    /\ [][LiveNext]_vars
    /\ WF_vars(Elapse)
    /\ WF_vars(LiveActor)

\* ---------------------------------------------------------------------------
\* Version texts.  A version is the sequence of its characters.
\* ---------------------------------------------------------------------------

\* The value of a decimal digit.
DigitValue ==
    [c \in {"0", "1", "2", "3", "4", "5", "6", "7", "8", "9"} |->
        CASE c = "0" -> 0 [] c = "1" -> 1 [] c = "2" -> 2 [] c = "3" -> 3
          [] c = "4" -> 4 [] c = "5" -> 5 [] c = "6" -> 6 [] c = "7" -> 7
          [] c = "8" -> 8 [] c = "9" -> 9]

\* The byte of a character, for the comparison of texts.
Ascii ==
    [c \in DOMAIN DigitValue \cup {"+", "-", ".", ":"} |->
        CASE c = "+" -> 43 [] c = "-" -> 45 [] c = "." -> 46 [] c = ":" -> 58
          [] OTHER -> 48 + DigitValue[c]]

\* std::cmp::Ordering of two integers.
cmp(a, b) == IF a < b THEN "Less" ELSE IF a > b THEN "Greater" ELSE "Equal"

\* Ordering::then_with
then_with(first, second) == IF first = "Equal" THEN second ELSE first

\* str::cmp: the texts byte by byte, a proper prefix is less.
RECURSIVE cmp_str(_, _)
cmp_str(a, b) ==
    IF a = <<>> /\ b = <<>> THEN "Equal"
    ELSE IF a = <<>> THEN "Less"
    ELSE IF b = <<>> THEN "Greater"
    ELSE then_with(cmp(Ascii[Head(a)], Ascii[Head(b)]), cmp_str(Tail(a), Tail(b)))

RECURSIVE DecimalValue(_)
DecimalValue(s) ==
    IF s = <<>> THEN 0
    ELSE 10 * DecimalValue(SubSeq(s, 1, Len(s) - 1)) + DigitValue[s[Len(s)]]

AllDigits(s) == s # <<>> /\ \A i \in 1..Len(s) : s[i] \in DOMAIN DigitValue

\* str::parse::<u64>: decimal digits after an optional '+'; the texts of this
\* model are too short to overflow a u64.
parse_u64(s) ==
    LET digits == IF s # <<>> /\ Head(s) = "+" THEN Tail(s) ELSE s IN
    IF AllDigits(digits)
    THEN [ok |-> TRUE, val |-> DecimalValue(digits)]
    ELSE [ok |-> FALSE, val |-> 0]

\* str::find(c): the first position of c in s, 0 for None.
find(s, c) ==
    IF \E i \in 1..Len(s) : s[i] = c
    THEN CHOOSE i \in 1..Len(s) : s[i] = c /\ \A j \in 1..(i - 1) : s[j] # c
    ELSE 0

\* str::rfind(c): the last position of c in s, 0 for None.
rfind(s, c) ==
    IF \E i \in 1..Len(s) : s[i] = c
    THEN CHOOSE i \in 1..Len(s) : s[i] = c /\ \A j \in (i + 1)..Len(s) : s[j] # c
    ELSE 0

SplitAt(s, i) ==
    IF i = 0
    THEN [some |-> FALSE, left |-> <<>>, right |-> <<>>]
    ELSE [some |-> TRUE, left |-> SubSeq(s, 1, i - 1), right |-> SubSeq(s, i + 1, Len(s))]

\* str::split_once(c) and str::rsplit_once(c)
split_once(s, c) == SplitAt(s, find(s, c))
rsplit_once(s, c) == SplitAt(s, rfind(s, c))

RECURSIVE SplitOn(_, _)
SplitOn(s, c) ==
    LET sp == split_once(s, c) IN
    IF sp.some THEN <<sp.left>> \o SplitOn(sp.right, c) ELSE <<s>>

\* A numeric identifier of semver: digits, no leading zero.
numeric_identifier(s) == AllDigits(s) /\ (Len(s) > 1 => Head(s) # "0")

NoSemver == [ok |-> FALSE, major |-> 0, minor |-> 0, patch |-> 0]

\* semver::Version::parse of a text that has no '-' and no '+' (no pre-release,
\* no build metadata: the versions of this model have one '-', before the
\* pkgrel): major.minor.patch, three numeric identifiers.
semver_parse(s) ==
    LET parts == SplitOn(s, ".") IN
    IF Len(parts) = 3 /\ \A i \in 1..3 : numeric_identifier(parts[i])
    THEN [ok |-> TRUE, major |-> DecimalValue(parts[1]),
          minor |-> DecimalValue(parts[2]), patch |-> DecimalValue(parts[3])]
    ELSE NoSemver

\* semver::Version::cmp of two versions without pre-release.
cmp_semver(a, b) ==
    then_with(cmp(a.major, b.major),
              then_with(cmp(a.minor, b.minor), cmp(a.patch, b.patch)))

\* compare_versions, its closure parse: [epoch:]pkgver-pkgrel.
parse(v) ==
    LET colon == split_once(v, ":")
        epoch == IF colon.some THEN parse_u64(colon.left) ELSE [ok |-> TRUE, val |-> 0]
        rest == IF colon.some THEN colon.right ELSE v
        dash == rsplit_once(rest, "-")
        pkgrel_num == parse_u64(dash.right)
        semver_ver == semver_parse(dash.left)
    IN [some |-> epoch.ok /\ dash.some /\ pkgrel_num.ok /\ semver_ver.ok,
        epoch |-> epoch.val, semver |-> semver_ver, pkgrel |-> pkgrel_num.val]

\* A comparison of the texts alone.
compare_versions_as_text(v1, v2) == cmp_str(v1, v2)

\* compare_versions
compare_versions(v1, v2) ==
    IF parse(v1).some /\ parse(v2).some
    THEN then_with(cmp(parse(v1).epoch, parse(v2).epoch),
         then_with(cmp_semver(parse(v1).semver, parse(v2).semver),
                   cmp(parse(v1).pkgrel, parse(v2).pkgrel)))
    ELSE cmp_str(v1, v2)

\* The versions compare_versions is called on.
v_1_2_0_r1 == <<"1", ".", "2", ".", "0", "-", "1">>
v_1_2_0_r2 == <<"1", ".", "2", ".", "0", "-", "2">>
v_1_9_0_r1 == <<"1", ".", "9", ".", "0", "-", "1">>
v_1_10_0_r1 == <<"1", ".", "1", "0", ".", "0", "-", "1">>
v_e0_1_2_0_r1 == <<"0", ":", "1", ".", "2", ".", "0", "-", "1">>
v_e1_9_9_9_r9 == <<"1", ":", "9", ".", "9", ".", "9", "-", "9">>
v_e2_1_0_0_r1 == <<"2", ":", "1", ".", "0", ".", "0", "-", "1">>
v_1_2_0_r01 == <<"1", ".", "2", ".", "0", "-", "0", "1">>
v_1_02_0_r1 == <<"1", ".", "0", "2", ".", "0", "-", "1">>
v_1_5 == <<"1", ".", "5">>

CompareVersions ==
    {v_1_2_0_r1, v_1_2_0_r2, v_1_9_0_r1, v_1_10_0_r1, v_e0_1_2_0_r1, v_e1_9_9_9_r9,
     v_e2_1_0_0_r1, v_1_2_0_r01, v_1_02_0_r1, v_1_5}

\* compare_versions is about to be called on two versions.
InitCompare ==
    /\ Construct(MaxFileSize)
    /\ \E v1 \in CompareVersions, v2 \in CompareVersions :
        call = [fn |-> "compare_versions", args |-> <<v1, v2>>,
                returned |-> FALSE, ret |-> <<>>]

\* The call returns.
call_compare_versions ==
    /\ call.fn = "compare_versions"
    /\ ~call.returned
    /\ call' = [call EXCEPT !.returned = TRUE,
                            !.ret = compare_versions(call.args[1], call.args[2])]
    /\ UNCHANGED <<actorSide, uploadSide, storeSide, sessionSide, configSide, dbSide, versionSide, repoSide, logSide>>

SpecCompare == InitCompare /\ [][call_compare_versions]_vars

\* ---------------------------------------------------------------------------
\* Retention: cleanup_old_versions on the packages of one name, each package
\* given by its version text, in the order list_packages returned them.
\* ---------------------------------------------------------------------------

\* The elements of a sequence.
Range(s) == {s[i] : i \in 1..Len(s)}

\* parse_semver_from_pkgver: the epoch is cut off unread.
parse_semver_from_pkgver(version_str) ==
    LET colon_pos == find(version_str, ":")
        without_epoch == IF colon_pos > 0
                         THEN SubSeq(version_str, colon_pos + 1, Len(version_str))
                         ELSE version_str
        dash == SplitAt(without_epoch, rfind(without_epoch, "-"))
        pkgrel_num == parse_u64(dash.right)
        semver == semver_parse(dash.left)
    IN [some |-> dash.some /\ pkgrel_num.ok /\ semver.ok,
        major |-> semver.major, minor |-> semver.minor, patch |-> semver.patch,
        pkgrel |-> pkgrel_num.val]

\* The key of pkgver_map.
pkgver_key(v) ==
    LET p == parse_semver_from_pkgver(v) IN <<p.major, p.minor, p.patch>>

\* cleanup_old_versions, "Deduplicate by pkgver": the parseable packages are
\* inserted in their order, a later one replaces an earlier one of the same
\* (major, minor, patch) only when its pkgrel is higher.
RECURSIVE pkgver_map(_)
pkgver_map(packages_with_versions) ==
    IF packages_with_versions = <<>> THEN EmptyMap
    ELSE LET n == Len(packages_with_versions)
             before == pkgver_map(SubSeq(packages_with_versions, 1, n - 1))
             pkg == packages_with_versions[n]
             key == pkgver_key(pkg)
         IN IF key \in DOMAIN before
            THEN IF parse_semver_from_pkgver(pkg).pkgrel
                        > parse_semver_from_pkgver(before[key]).pkgrel
                 THEN [before EXCEPT ![key] = pkg]
                 ELSE before
            ELSE (key :> pkg) @@ before

\* (major, minor, patch, pkgrel) of a is greater than that of b.
newer(a, b) ==
    LET pa == parse_semver_from_pkgver(a)
        pb == parse_semver_from_pkgver(b)
    IN then_with(cmp(pa.major, pb.major),
       then_with(cmp(pa.minor, pb.minor),
       then_with(cmp(pa.patch, pb.patch), cmp(pa.pkgrel, pb.pkgrel)))) = "Greater"

\* The first of the candidates in the descending sort: none when there is no
\* candidate.  The entries of deduplicated differ in (major, minor, patch).
first_of(candidates) ==
    {v \in candidates : \A w \in candidates \ {v} : newer(v, w)}

\* A previous-minor slot that is filled from any major.
previous_minor_of_any_major(deduplicated, current) ==
    first_of({v \in deduplicated : newer(current, v) /\
                 pkgver_key(v)[2] # pkgver_key(current)[2]})

\* cleanup_old_versions, "Find latest of previous minor".
previous_minor_latest(deduplicated, current) ==
    IF pkgver_key(current)[2] > 0
    THEN first_of({v \in deduplicated :
                     /\ pkgver_key(v)[1] = pkgver_key(current)[1]
                     /\ pkgver_key(v)[2] = pkgver_key(current)[2] - 1})
    ELSE {}

\* cleanup_old_versions, "Identify versions to keep" on more than one entry.
versions_to_keep(deduplicated) ==
    LET current == CHOOSE v \in deduplicated : first_of(deduplicated) = {v}
        same_minor == first_of({v \in deduplicated \ {current} :
                                  /\ pkgver_key(v)[1] = pkgver_key(current)[1]
                                  /\ pkgver_key(v)[2] = pkgver_key(current)[2]})
    IN {current} \cup same_minor \cup previous_minor_latest(deduplicated, current)

\* cleanup_old_versions, "Identify packages to delete": every package whose
\* version is not one of the kept ones.
to_delete_of(packages, kept_versions) ==
    {v \in Range(packages) : v \notin kept_versions}

\* cleanup_old_versions on the packages of the name: the versions it deletes.
cleanup_old_versions(packages) ==
    LET packages_with_versions ==
            SelectSeq(packages, LAMBDA v : parse_semver_from_pkgver(v).some)
        map == pkgver_map(packages_with_versions)
        deduplicated == {map[key] : key \in DOMAIN map}
    IN IF Len(packages) <= 1 THEN {}
       ELSE IF packages_with_versions = <<>> THEN {}
       ELSE IF Cardinality(deduplicated) <= 1
            THEN to_delete_of(packages, deduplicated)
            ELSE to_delete_of(packages, versions_to_keep(deduplicated))

\* The versions cleanup_old_versions is called on.
v_1_0_0_r1 == <<"1", ".", "0", ".", "0", "-", "1">>
v_1_0_0_r2 == <<"1", ".", "0", ".", "0", "-", "2">>
v_e1_1_0_0_r2 == <<"1", ":", "1", ".", "0", ".", "0", "-", "2">>
v_1_1_0_r1 == <<"1", ".", "1", ".", "0", "-", "1">>
v_1_1_0_r2 == <<"1", ".", "1", ".", "0", "-", "2">>
v_2_0_0_r1 == <<"2", ".", "0", ".", "0", "-", "1">>

RetentionVersions ==
    {v_1_0_0_r1, v_1_0_0_r2, v_e1_1_0_0_r2, v_1_1_0_r1, v_1_1_0_r2, v_1_2_0_r1,
     v_2_0_0_r1, v_1_5}

\* The listings of at most MaxListed packages with different versions.
Listings(versions) ==
    {l \in UNION {[1..n -> versions] : n \in 0..MaxListed} :
        \A i \in 1..Len(l), j \in 1..Len(l) : l[i] = l[j] => i = j}

\* cleanup_old_versions is about to be called, list_packages returning the
\* packages of the name in some order.
InitRetention ==
    /\ Construct(MaxFileSize)
    /\ \E packages \in Listings(RetentionVersions) :
        call = [fn |-> "cleanup_old_versions", args |-> <<packages>>,
                returned |-> FALSE, ret |-> <<>>]

\* The call returns the packages it deleted.
call_cleanup_old_versions ==
    /\ call.fn = "cleanup_old_versions"
    /\ ~call.returned
    /\ call' = [call EXCEPT !.returned = TRUE,
                            !.ret = cleanup_old_versions(call.args[1])]
    /\ UNCHANGED <<actorSide, uploadSide, storeSide, sessionSide, configSide, dbSide, versionSide, repoSide, logSide>>

SpecRetention == InitRetention /\ [][call_cleanup_old_versions]_vars

\* ---------------------------------------------------------------------------
\* regenerate_repo_db's reduction of the listed packages to one per name.
\* A package is given by its name and its version text.
\* ---------------------------------------------------------------------------

\* select_latest_versions, its HashMap after the loop over the packages: a
\* package replaces the entry of its name unless that entry compares greater
\* or equal.
RECURSIVE latest_by_name(_)
latest_by_name(packages) ==
    IF packages = <<>> THEN EmptyMap
    ELSE LET n == Len(packages)
             before == latest_by_name(SubSeq(packages, 1, n - 1))
             pkg == packages[n]
             dominated ==
                 /\ pkg.name \in DOMAIN before
                 /\ compare_versions(before[pkg.name].version, pkg.version)
                        \in {"Greater", "Equal"}
         IN IF dominated THEN before ELSE (pkg.name :> pkg) @@ before

\* select_latest_versions: the values of the map.
select_latest_versions(packages) ==
    {latest_by_name(packages)[name] : name \in DOMAIN latest_by_name(packages)}

\* The packages select_latest_versions is called on.
LatestPackages ==
    {[name |-> "foo", version |-> v] :
        v \in {v_1_10_0_r1, v_1_9_0_r1, v_1_5, v_1_2_0_r1, v_e0_1_2_0_r1}}
    \cup {[name |-> "bar", version |-> v_1_0_0_r1]}

\* regenerate_repo_db is about to reduce the packages list_packages returned.
InitLatest ==
    /\ Construct(MaxFileSize)
    /\ \E packages \in Listings(LatestPackages) :
        call = [fn |-> "select_latest_versions", args |-> <<packages>>,
                returned |-> FALSE, ret |-> <<>>]

\* The call returns the packages that go into the database.
call_select_latest_versions ==
    /\ call.fn = "select_latest_versions"
    /\ ~call.returned
    /\ call' = [call EXCEPT !.returned = TRUE,
                            !.ret = select_latest_versions(call.args[1])]
    /\ UNCHANGED <<actorSide, uploadSide, storeSide, sessionSide, configSide, dbSide, versionSide, repoSide, logSide>>

SpecLatest == InitLatest /\ [][call_select_latest_versions]_vars

\* ---------------------------------------------------------------------------
\* DELETE /packages/{name}/versions: delete_versions over the stored versions
\* of one package.
\* ---------------------------------------------------------------------------
\* Version specs of a request: a caret range, two texts of the form
\* pkgver-pkgrel, and a text with an epoch.
req_caret_1_0_0 == <<"^", "1", ".", "0", ".", "0">>

VersionSpecs == {req_caret_1_0_0, v_1_0_0_r1, v_2_0_0_r1, v_e1_1_0_0_r2}

MaxSpecs == 1

SpecLists == UNION {[1..n -> VersionSpecs] : n \in 1..MaxSpecs}

\* The versions of the package that are uploaded.
DeleteVersions == {v_1_0_0_r1, v_1_1_0_r1, v_2_0_0_r1, v_e1_1_0_0_r2}

NoReq == [ok |-> FALSE, major |-> 0, minor |-> 0, patch |-> 0, pre |-> <<>>]

\* semver::VersionReq::parse of a text of the form [^]major.minor.patch[-pre]
\* with a numeric pre-release: one comparator, Op::Caret (the default
\* operator). A text holding ':' is no requirement.
version_req_parse(spec) ==
    LET body == IF spec # <<>> /\ Head(spec) = "^" THEN Tail(spec) ELSE spec
        dash == split_once(body, "-")
        core == IF dash.some THEN dash.left ELSE body
        pre == IF dash.some THEN dash.right ELSE <<>>
        version == semver_parse(core)
    IN IF version.ok /\ (dash.some => numeric_identifier(pre))
       THEN [ok |-> TRUE, major |-> version.major, minor |-> version.minor,
             patch |-> version.patch, pre |-> pre]
       ELSE NoReq

\* semver, matches_caret for a comparator with minor and patch, against a
\* version without pre-release (which every pre-release of the comparator
\* precedes).
matches(req, ver) ==
    IF ver.major # req.major THEN FALSE
    ELSE IF req.major > 0
    THEN IF ver.minor # req.minor THEN ver.minor > req.minor
         ELSE IF ver.patch # req.patch THEN ver.patch > req.patch
         ELSE TRUE
    ELSE IF req.minor > 0
    THEN IF ver.minor # req.minor THEN FALSE
         ELSE IF ver.patch # req.patch THEN ver.patch > req.patch
         ELSE TRUE
    ELSE ver.minor = req.minor /\ ver.patch = req.patch

\* parse_arch_version_to_semver: drop the epoch up to the first ':' and the
\* pkgrel from the last '-', parse the rest as semver.
parse_arch_version_to_semver(version_str) ==
    LET colon_pos == find(version_str, ":")
        without_epoch == SubSeq(version_str, colon_pos + 1, Len(version_str))
        last_dash == rfind(without_epoch, "-")
    IN IF last_dash = 0 THEN NoSemver
       ELSE semver_parse(SubSeq(without_epoch, 1, last_dash - 1))

\* version_matches_range(...).unwrap_or(false)
version_matches_range(version_str, range) ==
    /\ parse_arch_version_to_semver(version_str).ok
    /\ matches(range, parse_arch_version_to_semver(version_str))

\* delete_versions, "Determine which versions to delete".
to_delete_set(packages, specs) ==
    UNION {IF version_req_parse(spec).ok
           THEN {pkg.version : pkg \in
                    {q \in packages : version_matches_range(q.version,
                                                            version_req_parse(spec))}}
           ELSE {spec} : spec \in Range(specs)}

VersionedPackage(v) == [name |-> "pkg", filename |-> <<"pkg", v>>, version |-> v]

\* The versions whose archive is in the repo.
StoredVersions == {filename[2] : filename \in DOMAIN archives}

\* A version of the package is stored: the archive under its filename, the
\* record under metadata/{name}.json.
store_version ==
    \E v \in DeleteVersions :
        /\ versionDelete.pc \in {"idle", "done"}
        /\ VersionedPackage(v).filename \notin DOMAIN archives
        /\ archives' = (VersionedPackage(v).filename :> <<1>>) @@ archives
        /\ records' = ("pkg" :> VersionedPackage(v)) @@ records
        /\ stored' = stored \cup {VersionedPackage(v).filename}
        /\ UNCHANGED <<sessions, staging, issued, task, ops, response, acked, actorSide,
                       storeSide, sessionSide, configSide, dbSide, fnSide, logSide, deleter,
                       versionDelete>>

\* Storage::list_packages: every record of metadata/.
list_packages == {records[n] : n \in DOMAIN records}

\* delete_versions up to "Check if any versions matched".
delete_versions ==
    \E specs \in SpecLists :
        /\ versionDelete.pc \in {"idle", "done"}
        /\ LET packages == {pkg \in list_packages : pkg.name = "pkg"}
               to_delete == {pkg \in packages : pkg.version \in to_delete_set(packages, specs)}
               request == [IdleVersionDelete EXCEPT !.specs = specs,
                                                    !.before = StoredVersions]
           IN versionDelete' =
                 IF packages = {} \/ to_delete = {}
                 THEN [request EXCEPT !.pc = "done", !.result = "PackageNotFound"]
                 ELSE [request EXCEPT !.pc = "delete", !.to_delete = to_delete,
                                      !.deleted_count = Cardinality(to_delete)]
        /\ UNCHANGED <<actorSide, uploadSide, storeSide, sessionSide, configSide, dbSide, fnSide,
                       repoSide, logSide>>

\* delete_versions, "Delete all matched packages": one delete_package.
delete_versions_package ==
    \E pkg \in versionDelete.to_delete :
        /\ versionDelete.pc = "delete"
        /\ archives' = remove(archives, pkg.filename)
        /\ records' = remove(records, pkg.name)
        /\ stored' = stored \ {pkg.filename}
        /\ versionDelete' = [versionDelete EXCEPT !.to_delete = @ \ {pkg}]
        /\ UNCHANGED <<sessions, staging, issued, task, ops, response, acked, actorSide,
                       storeSide, sessionSide, configSide, dbSide, fnSide, logSide, deleter>>

\* delete_versions: regenerate_repo_db(...).await?, then 204.
delete_versions_regenerate ==
    \E failed \in BOOLEAN :
        /\ versionDelete.pc = "delete"
        /\ versionDelete.to_delete = {}
        /\ versionDelete' = [versionDelete EXCEPT
                                !.pc = "done",
                                !.result = IF failed THEN "Io" ELSE "Ok"]
        /\ UNCHANGED <<actorSide, uploadSide, storeSide, sessionSide, configSide, dbSide, fnSide,
                       repoSide, logSide>>

VersionsNext ==
    \/ store_version
    \/ delete_versions
    \/ delete_versions_package
    \/ delete_versions_regenerate

\* A repository of one package and a client that stores versions of it and
\* deletes versions of it.
SpecVersions == Init /\ [][VersionsNext]_vars

\* ---------------------------------------------------------------------------
\* Storage::list_packages over the metadata directories of one repo.
\* ---------------------------------------------------------------------------
Archs == {"x86_64", "aarch64", "any"}

ArchPackageNames == {"foo", "bar"}

\* Packages a client stores: a name and the arch of its PKGINFO.
ArchPackages == {[name |-> n, arch |-> a] : n \in ArchPackageNames, a \in Archs}

\* store_package for each of the packages: the record of a package is written
\* to <repo>/os/<package.arch>/metadata/<package.name>.json.
metadata_files(packages) ==
    [file \in {<<pkg.arch, pkg.name>> : pkg \in packages} |->
        CHOOSE pkg \in packages : file = <<pkg.arch, pkg.name>>]

\* Storage::list_packages(repo, arch): every record in
\* <repo>/os/<arch>/metadata.
list_packages_of(files, arch) ==
    {files[file] : file \in {f \in DOMAIN files : f[1] = arch}}

\* The packages are stored and list_packages is called for an arch.
InitList ==
    /\ Construct(MaxFileSize)
    /\ \E packages \in SUBSET ArchPackages, arch \in Archs :
        call = [fn |-> "list_packages", args |-> <<packages, arch>>,
                returned |-> FALSE, ret |-> <<>>]

call_list_packages ==
    /\ call.fn = "list_packages"
    /\ ~call.returned
    /\ call' = [call EXCEPT !.returned = TRUE,
                            !.ret = list_packages_of(metadata_files(call.args[1]),
                                                     call.args[2])]
    /\ UNCHANGED <<actorSide, uploadSide, storeSide, sessionSide, configSide, dbSide, versionSide, repoSide, logSide>>

SpecList == InitList /\ [][call_list_packages]_vars

\* ---------------------------------------------------------------------------
\* POST /packages/upload/initiate, the whole handler with its rejections.
\* ---------------------------------------------------------------------------

\* Filenames as lists of their parts, the last part being the extension.
pkg_tar_zst == ".pkg.tar.zst"
Filenames ==
    {<<"foo", pkg_tar_zst>>, <<"foo", ".pkg.tar.xz">>, <<"foo", pkg_tar_zst, ".sig">>,
     <<pkg_tar_zst>>, <<"foo">>, <<>>}

\* str::ends_with
ends_with(filename, suffix) == Len(filename) >= 1 /\ filename[Len(filename)] = suffix

\* An initiate_upload that does not compare the size with max_payload_size.
initiate_validate_no_size_limit(filename, size, chunk_size, max_size) ==
    IF ~ends_with(filename, pkg_tar_zst)
    THEN [kind |-> "InvalidPackage", why |-> "Invalid file extension"]
    ELSE IF initiate_check(size, chunk_size) # "ok"
    THEN [kind |-> "InvalidPackage", why |-> initiate_check(size, chunk_size)]
    ELSE [kind |-> "Created", why |-> "ok"]

\* initiate_upload, its validations in the order of the code: the extension,
\* the maximum size, the zero size, the chunk size.
initiate_validate(filename, size, chunk_size, max_size) ==
    IF ~ends_with(filename, pkg_tar_zst)
    THEN [kind |-> "InvalidPackage", why |-> "Invalid file extension"]
    ELSE IF size > max_size
    THEN [kind |-> "PayloadTooLarge", why |-> "exceeds maximum allowed size"]
    ELSE IF initiate_check(size, chunk_size) # "ok"
    THEN [kind |-> "InvalidPackage", why |-> initiate_check(size, chunk_size)]
    ELSE [kind |-> "Created", why |-> "ok"]

\* Requests to initiate, services with every maximum size up to MaxFileSize.
InitInitiate ==
    \E limit \in 1..MaxFileSize :
        /\ Construct(limit)
        /\ \E filename \in Filenames, size \in 0..(MaxFileSize + 1),
              chunk_size \in 0..(MaxFileSize + 1) :
            call = [fn |-> "initiate_upload", args |-> <<filename, size, chunk_size>>,
                    returned |-> FALSE, ret |-> "none"]

\* The handler from the request to its response: a rejection returns the
\* error; otherwise UploadSession::new and create_session (the staging
\* directory, then the entry of the map) and 201.
call_initiate_upload ==
    /\ call.fn = "initiate_upload"
    /\ ~call.returned
    /\ LET filename == call.args[1]
           size == call.args[2]
           chunk_size == call.args[3]
           result == initiate_validate(filename, size, chunk_size, max_payload_size) IN
        /\ call' = [call EXCEPT !.returned = TRUE, !.ret = result.kind]
        /\ IF result.kind = "Created"
           THEN \E id \in uuids \ issued :
                   /\ issued' = issued \cup {id}
                   /\ staging' = (id :> EmptyDir) @@ staging
                   /\ sessions' = (id :> NewSession(size, chunk_size, NoSha, utc)) @@ sessions
           ELSE UNCHANGED <<issued, staging, sessions>>
    /\ UNCHANGED <<archives, records, task, ops, response, acked, actorSide, storeSide,
                   sessionSide, configSide, dbSide, versionSide, repoSide, logSide>>

SpecInitiate == InitInitiate /\ [][call_initiate_upload]_vars

\* ---------------------------------------------------------------------------
\* generate_repo_db writing <repo>.db.tar.gz and its alias <repo>.db, and
\* serve_file reading the alias.
\* ---------------------------------------------------------------------------
MaxGenerations == 3
MaxEntries == 2

DbFrame == <<actorSide, uploadSide, storeSide, sessionSide, configSide, fnSide, repoSide,
             logSide, versionSide>>

\* generate_repo_db is called with the packages of the repo:
\* std::fs::File::create(db_path) creates the archive file or truncates the
\* one that is there.
generate_repo_db ==
    \E packages \in 1..MaxEntries :
        /\ db.pc = "idle"
        /\ db.published < MaxGenerations
        /\ db' = [db EXCEPT !.pc = "append", !.packages = packages, !.exists = TRUE,
                            !.entries = 0, !.finished = FALSE]
        /\ UNCHANGED <<DbFrame, served>>

\* tar.append(&header, desc_content) for the next package.
generate_append ==
    /\ db.pc = "append"
    /\ db.entries < db.packages
    /\ db' = [db EXCEPT !.entries = @ + 1]
    /\ UNCHANGED <<DbFrame, served>>

\* tar.finish(): the end of the archive is written.
generate_finish ==
    /\ db.pc = "append"
    /\ db.entries = db.packages
    /\ db' = [db EXCEPT !.finished = TRUE, !.pc = "remove_link"]
    /\ UNCHANGED <<DbFrame, served>>

\* if db_link.exists() { fs::remove_file(&db_link) }
generate_remove_link ==
    /\ db.pc = "remove_link"
    /\ db' = [db EXCEPT !.link = FALSE, !.pc = "symlink"]
    /\ UNCHANGED <<DbFrame, served>>

\* symlink("<repo>.db.tar.gz", db_link); generate_repo_db returns Ok.
generate_symlink ==
    /\ db.pc = "symlink"
    /\ db' = [db EXCEPT !.link = TRUE, !.pc = "idle", !.published = @ + 1]
    /\ UNCHANGED <<DbFrame, served>>

\* serve_file for <repo>.db: 404 when file_path.exists() is false, else the
\* bytes tokio::fs::read finds in the file the alias points to.
serve_file ==
    /\ served' = IF db.link /\ db.exists
                 THEN [status |-> "Ok", entries |-> db.entries, finished |-> db.finished,
                       published |-> db.published]
                 ELSE [status |-> "NotFound", entries |-> 0, finished |-> FALSE,
                       published |-> db.published]
    /\ UNCHANGED <<DbFrame, db>>

PublishNext ==
    \/ generate_repo_db
    \/ generate_append
    \/ generate_finish
    \/ generate_remove_link
    \/ generate_symlink
    \/ serve_file

\* Regenerations of one database and clients that fetch it.
SpecPublish == Init /\ [][PublishNext]_vars

\* ---------------------------------------------------------------------------
\* Storage paths: validate_path_component, validate_path_within_base and the
\* three path builders. A path is the tuple of its characters.
\* ---------------------------------------------------------------------------
MaxComponentLen == 2

\* The NUL character.
Nul == "NUL"

\* Characters of a component a client supplies.
PathChars == {"a", ".", "/", "\\", Nul}

Components == UNION {[1..n -> PathChars] : n \in 0..MaxComponentLen}

\* What the file system holds of a path being built: the path itself, only its
\* parent directory, or neither.
FsStates == {"path", "parent", "neither"}

\* Storage::new(base_path): the data root.
base_path == <<"/", "d">>

PathOk(path) == [ok |-> TRUE, kind |-> "Ok", why |-> "", path |-> path]
PathErr(kind, why) == [ok |-> FALSE, kind |-> kind, why |-> why, path |-> <<>>]

\* str::contains(char)
contains(text, ch) == \E i \in DOMAIN text : text[i] = ch

\* A validate_path_component without the test for "." and "..".
validate_path_component_dots_allowed(component) ==
    IF component = <<>>
    THEN PathErr("InvalidPackage", "Path component cannot be empty")
    ELSE IF contains(component, "/") \/ contains(component, "\\")
    THEN PathErr("InvalidPackage", "Path component cannot contain path separators")
    ELSE IF contains(component, Nul)
    THEN PathErr("InvalidPackage", "Path component cannot contain null bytes")
    ELSE PathOk(<<>>)

validate_path_component(component) ==
    IF component = <<>>
    THEN PathErr("InvalidPackage", "Path component cannot be empty")
    ELSE IF component = <<".">> \/ component = <<".", ".">>
    THEN PathErr("InvalidPackage", "Invalid path component")
    ELSE IF contains(component, "/") \/ contains(component, "\\")
    THEN PathErr("InvalidPackage", "Path component cannot contain path separators")
    ELSE IF contains(component, Nul)
    THEN PathErr("InvalidPackage", "Path component cannot contain null bytes")
    ELSE PathOk(<<>>)

\* PathBuf::join: an absolute component replaces the path, any other is put
\* after a separator.
join(path, component) ==
    IF component # <<>> /\ component[1] = "/" THEN component
    ELSE IF path # <<>> /\ path[Len(path)] = "/" THEN path \o component
    ELSE path \o <<"/">> \o component

\* Path::components of an absolute path: the names between separators, empty
\* names and "." left out.
RECURSIVE path_components(_)
path_components(path) ==
    IF path = <<>> THEN <<>>
    ELSE LET cut == find(path, "/")
             name == IF cut = 0 THEN path ELSE SubSeq(path, 1, cut - 1)
             rest == IF cut = 0 THEN <<>> ELSE SubSeq(path, cut + 1, Len(path))
         IN IF name = <<>> \/ name = <<".">>
            THEN path_components(rest)
            ELSE <<name>> \o path_components(rest)

\* Path::canonicalize on a file system without symbolic links: ".." leaves
\* the directory, and the root is its own parent.
RECURSIVE resolve(_, _)
resolve(done, names) ==
    IF names = <<>> THEN done
    ELSE IF Head(names) = <<".", ".">>
    THEN resolve(IF done = <<>> THEN <<>> ELSE SubSeq(done, 1, Len(done) - 1), Tail(names))
    ELSE resolve(Append(done, Head(names)), Tail(names))

canonicalize(path) == resolve(<<>>, path_components(path))

\* Path::starts_with, on the names of two canonical paths.
starts_with(names, base) ==
    /\ Len(names) >= Len(base)
    /\ SubSeq(names, 1, Len(base)) = base

validate_path_within_base(base, path, fs) ==
    LET canonical_base == canonicalize(base)
        names == path_components(path)
        checked(path_to_check) ==
            IF starts_with(path_to_check, canonical_base)
            THEN PathOk(path)
            ELSE PathErr("InvalidPackage", "Path traversal detected")
    IN IF fs = "path" THEN checked(canonicalize(path))
       ELSE IF names = <<>> THEN PathErr("InvalidPackage", "Invalid path structure")
       ELSE IF fs = "parent"
       THEN IF names[Len(names)] = <<".", ".">>
            THEN PathErr("InvalidPackage", "Invalid path structure")
            ELSE checked(Append(resolve(<<>>, SubSeq(names, 1, Len(names) - 1)),
                                names[Len(names)]))
       ELSE PathOk(path)

\* The first error of the validations, or the last result.
RECURSIVE first_err(_)
first_err(results) ==
    IF Len(results) = 1 \/ ~Head(results).ok THEN Head(results)
    ELSE first_err(Tail(results))

dir_os == <<"o", "s">>
dir_metadata == <<"m", "e", "t", "a", "d", "a", "t", "a">>
ext_json == <<".", "j", "s", "o", "n">>

package_path(repo, arch, filename, fs) ==
    first_err(<<validate_path_component(repo),
                validate_path_component(arch),
                validate_path_component(filename),
                validate_path_within_base(
                    base_path,
                    join(join(join(join(base_path, repo), dir_os), arch), filename),
                    fs)>>)

metadata_path(repo, arch, package_name, fs) ==
    first_err(<<validate_path_component(repo),
                validate_path_component(arch),
                validate_path_component(package_name),
                validate_path_within_base(
                    base_path,
                    join(join(join(join(join(base_path, repo), dir_os), arch),
                              dir_metadata),
                         package_name \o ext_json),
                    fs)>>)

repo_dir(repo, arch, fs) ==
    first_err(<<validate_path_component(repo),
                validate_path_component(arch),
                validate_path_within_base(
                    base_path, join(join(join(base_path, repo), dir_os), arch), fs)>>)

\* A path builder is called with components a client chose.
InitPath ==
    /\ Construct(MaxFileSize)
    /\ \E repo \in Components, arch \in Components, fs \in FsStates :
          \/ \E name \in Components, fn \in {"package_path", "metadata_path"} :
                call = [fn |-> fn, args |-> <<repo, arch, name, fs>>,
                        returned |-> FALSE, ret |-> <<>>]
          \/ call = [fn |-> "repo_dir", args |-> <<repo, arch, fs>>,
                     returned |-> FALSE, ret |-> <<>>]

call_package_path ==
    /\ call.fn = "package_path"
    /\ ~call.returned
    /\ call' = [call EXCEPT !.returned = TRUE,
                            !.ret = package_path(call.args[1], call.args[2],
                                                 call.args[3], call.args[4])]
    /\ UNCHANGED <<actorSide, uploadSide, storeSide, sessionSide, configSide, dbSide, versionSide, repoSide, logSide>>

call_metadata_path ==
    /\ call.fn = "metadata_path"
    /\ ~call.returned
    /\ call' = [call EXCEPT !.returned = TRUE,
                            !.ret = metadata_path(call.args[1], call.args[2],
                                                  call.args[3], call.args[4])]
    /\ UNCHANGED <<actorSide, uploadSide, storeSide, sessionSide, configSide, dbSide, versionSide, repoSide, logSide>>

call_repo_dir ==
    /\ call.fn = "repo_dir"
    /\ ~call.returned
    /\ call' = [call EXCEPT !.returned = TRUE,
                            !.ret = repo_dir(call.args[1], call.args[2], call.args[3])]
    /\ UNCHANGED <<actorSide, uploadSide, storeSide, sessionSide, configSide, dbSide, versionSide, repoSide, logSide>>

PathNext ==
    \/ call_package_path
    \/ call_metadata_path
    \/ call_repo_dir

SpecPath == InitPath /\ [][PathNext]_vars

\* ------------------------------------------------------------------ claims
\* The writers regenerating the database of key k at this moment.
Regenerating(k) ==
    {h \in Handlers : direct[h] = k}
        \cup (IF actorPc = "regen" /\ actorCur = k THEN {"actor"} ELSE {})

\* A burst of RequestUpdate(k): one or more, each handled less than Debounce
\* after the one before, and no ForceRebuild(k).
Burst(k) == reqCount[k] >= 1 /\ gapOK[k] /\ ~forced[k]

\* C1: the RequestUpdate(k) messages of a burst that reaches the actor within
\* the debounce window share one pending entry and produce exactly one
\* regeneration of k: none while the entry is pending, one once it is taken.
C1_DebounceCoalescing ==
    \A k \in Keys :
        Burst(k) => actorRegens[k] = (IF k \in DOMAIN pending THEN 0 ELSE 1)

\* C1 witness: three coalesced requests of one key, regenerated once by the timer.
C1_Witness ==
    \E k \in Keys :
        /\ Burst(k)
        /\ reqCount[k] >= 3
        /\ handling = TimerFired
        /\ k \notin DOMAIN pending
        /\ actorRegens[k] = 1

\* C2: while ForceRebuild(k) is the message the actor handled last, the
\* regeneration of k it triggered has started (in that handling, before any
\* other message is received) and no pending entry for k remains.
C2_ForceBypass ==
    handling.type = "ForceRebuild" =>
        /\ handling.key \notin DOMAIN pending
        /\ actorRegens[handling.key] = handlingBase + 1
        /\ actorPc \in {"regen", "select"}
        /\ actorPc = "regen" => (actorCur = handling.key /\ actorMode = "force")

\* C2 witness: ForceRebuild(k) handled while k and another key were pending;
\* the forced regeneration is done and only the other key is still pending.
C2_Witness ==
    /\ handling.type = "ForceRebuild"
    /\ actorPc = "select"
    /\ reqCount[handling.key] >= 1
    /\ actorRegens[handling.key] = 1
    /\ DOMAIN pending = Keys \ {handling.key}

\* C3: at no time are two regenerations of the database of one key in progress.
C3_SingleWriter == \A k \in Keys : Cardinality(Regenerating(k)) <= 1

\* C4: flush_all_pending regenerates each key that was pending at Shutdown (or
\* at channel close) exactly once, as it removes it, and no other key; the
\* actor stops only with the pending map empty.
C4_ShutdownDrain ==
    /\ \A k \in Keys :
        flushed[k] = (IF k \in shutdownKeys \ DOMAIN pending THEN 1 ELSE 0)
    /\ actorPc = "stopped" => DOMAIN pending = {}

\* C4 witness: the actor has stopped after Shutdown found every key pending.
C4_Witness ==
    /\ actorPc = "stopped"
    /\ handling = Shutdown
    /\ shutdownKeys = Keys
    /\ \A k \in Keys : flushed[k] = 1

\* Task t ends its request of kind op in this step with the given response.
Returns(t, op, kind, why) ==
    /\ task[t].op = op
    /\ task'[t] = IdleTask
    /\ response' = [op |-> op, kind |-> kind, why |-> why]

\* C5 as the specification words it: a complete on an existing session fails
\* with InvalidPackage if and only if uploaded_chunks # {1..k}.
C5_InvalidPackageIffMissing ==
    [][\A t \in Tasks :
        (/\ task[t].op = "complete"
         /\ task[t].id \in DOMAIN sessions
         /\ task'[t] = IdleTask)
        => LET s == sessions[task[t].id] IN
           (response'.kind = "InvalidPackage")
               <=> (s.uploaded_chunks # 1..s.total_chunks)]_vars

\* C5: a complete that finds uploaded_chunks # {1..k} in its session fails
\* with InvalidPackage and changes neither the session nor the storage; a
\* complete that goes on to assemble found uploaded_chunks = {1..k}, and one
\* that goes on past the verification of assemble_chunks has streamed exactly
\* file_size bytes into the assembled blob.
C5_Completeness ==
    [][\A t \in Tasks :
        /\ (/\ task[t].op = "complete"
            /\ task[t].pc \in {"start", "assemble"}
            /\ task[t].id \in DOMAIN sessions
            /\ sessions[task[t].id].uploaded_chunks
                   # 1..sessions[task[t].id].total_chunks
            /\ task'[t] # task[t])
           => /\ Returns(t, "complete", "InvalidPackage", "missing chunks")
              /\ UNCHANGED <<sessions, staging, archives, records>>
        /\ (/\ task'[t].op = "complete"
            /\ task'[t].pc \notin {"start", "assemble"})
           => task'[t].snap.uploaded_chunks = 1..task'[t].snap.total_chunks
        /\ (/\ task'[t].op = "complete"
            /\ task'[t].pc \notin {"start", "assemble", "read", "verify"})
           => task'[t].total_size = task'[t].snap.file_size]_vars

\* C5 witness: a complete of a two-chunk upload has returned success and the
\* archive it stored has the two bytes of the file.
C5_Witness ==
    /\ response = [op |-> "complete", kind |-> "Ok", why |-> "package created"]
    /\ \E f \in DOMAIN archives : Len(archives[f]) = 2
    /\ acked["u1"] = {1, 2}

\* C6: store_chunk(n, body) with n < k and |body| # chunk_size is rejected
\* with InvalidPackage and leaves the session and the staged files as they
\* were; chunk k passes the validation if and only if |body| is
\* file_size mod chunk_size, or chunk_size when that remainder is zero.
C6_ChunkSizeDiscipline ==
    [][\A t \in Tasks :
        (/\ task[t].op = "store_chunk"
         /\ task[t].pc = "start"
         /\ task[t].id \in DOMAIN sessions
         /\ task'[t] # task[t])
        => LET s == sessions[task[t].id]
               k == s.total_chunks
               len == Len(task[t].body)
               rem == s.file_size % s.chunk_size
               rejected ==
                   /\ Returns(t, "store_chunk", "InvalidPackage", "chunk size mismatch")
                   /\ UNCHANGED <<sessions, staging, acked>>
               accepted ==
                   /\ task'[t].pc = "create"
                   /\ task'[t].n = task[t].n
                   /\ task'[t].body = task[t].body
           IN  /\ (task[t].n \in 1..(k - 1) /\ len # s.chunk_size) => rejected
               /\ (task[t].n \in 1..(k - 1) /\ len = s.chunk_size) => accepted
               /\ task[t].n = k =>
                     IF len = (IF rem = 0 THEN s.chunk_size ELSE rem)
                     THEN accepted ELSE rejected]_vars

\* C6 witness: in a session of 3 bytes in chunks of 2, the last chunk was
\* stored with its single byte, and a chunk of another length was rejected.
C6_Witness ==
    /\ "u1" \in DOMAIN sessions
    /\ sessions["u1"].file_size = 3
    /\ sessions["u1"].chunk_size = 2
    /\ 2 \in sessions["u1"].uploaded_chunks
    /\ Len(staging["u1"].chunks[2]) = 1
    /\ response = [op |-> "store_chunk", kind |-> "InvalidPackage",
                   why |-> "chunk size mismatch"]

\* C7: every chunk number whose store_chunk returned success is in the
\* uploaded_chunks of its session, as long as the session exists.
C7_AtomicChunkRecording ==
    \A id \in DOMAIN sessions : acked[id] \subseteq sessions[id].uploaded_chunks

\* C8: when complete is about to check the session, every chunk whose
\* store_chunk had returned success before complete was invoked is in the
\* uploaded_chunks it checks.
C8_CompleteObservesAcked ==
    \A t \in Tasks :
        (/\ task[t].op = "complete"
         /\ task[t].pc = "start"
         /\ task[t].id \in DOMAIN sessions)
        => task[t].ackedBefore \subseteq sessions[task[t].id].uploaded_chunks

C10_ChecksumHonoring ==
    [][\A t \in Tasks :
        /\ (/\ task[t].op = "complete"
            /\ task[t].pc = "verify"
            /\ task[t].snap.sha256.some
            /\ task[t].total_size = task[t].snap.file_size
            /\ task'[t] # task[t])
           => IF [digest |-> task[t].hasher, upper |-> FALSE] # task[t].snap.sha256.hash
              THEN /\ Returns(t, "complete", "InvalidPackage", "checksum mismatch")
                   /\ UNCHANGED <<archives, records, sessions>>
              ELSE task'[t].pc = "extract"
        /\ (/\ task'[t].op = "complete"
            /\ task'[t].pc \in {"extract", "store", "copy", "metadata", "regenerate",
                                "delete_check", "delete_dir", "delete_map"}
            /\ task'[t].snap.sha256.some)
           => /\ task'[t].hasher = task'[t].snap.sha256.hash.digest
              /\ ~task'[t].snap.sha256.hash.upper]_vars

\* C10 witness: a complete was rejected for its checksum and nothing is stored.
C10_Witness ==
    /\ response = [op |-> "complete", kind |-> "InvalidPackage",
                   why |-> "checksum mismatch"]
    /\ archives = EmptyMap
    /\ records = EmptyMap
    /\ "u1" \in DOMAIN sessions
    /\ sessions["u1"].sha256.some

\* C11: an upload_chunk, upload_signature or complete_upload that finds its
\* session in the map with expires_at in the past returns InvalidPackage, and
\* leaves the session, the staging directories (chunks and signature), the
\* acknowledged chunks, the archives and the records as they were.
C11_ExpiredSessions ==
    [][\A t \in Tasks :
        (/\ task[t].op \in {"store_chunk", "upload_signature", "complete"}
         /\ task[t].pc = "start"
         /\ task[t].id \in DOMAIN sessions
         /\ utc > sessions[task[t].id].expires_at
         /\ task'[t] # task[t])
        => /\ Returns(t, task[t].op, "InvalidPackage", "session expired")
           /\ UNCHANGED <<sessions, staging, acked, archives, records>>]_vars

\* C11 witness: a complete of a session that has all its chunks was rejected
\* as expired; the session is still in the map and nothing is stored.
C11_Witness ==
    /\ response = [op |-> "complete", kind |-> "InvalidPackage",
                   why |-> "session expired"]
    /\ "u1" \in DOMAIN sessions
    /\ is_complete(sessions["u1"])
    /\ utc > sessions["u1"].expires_at
    /\ archives = EmptyMap
    /\ records = EmptyMap

\* C12: once delete_session has returned Ok for an upload_id (from a
\* successful complete, an abort or the expiry sweep), the upload_id is absent
\* from the session map and its staging directory is removed.
C12_SessionLifecycle ==
    \A id \in destroyed :
        /\ id \notin DOMAIN sessions
        /\ id \notin DOMAIN staging

\* What each version decodes to: (epoch, (major, minor, patch), pkgrel), the
\* epoch 0 where there is none.
C20_Decoded ==
    (v_1_2_0_r1 :> <<0, <<1, 2, 0>>, 1>>) @@ (v_1_2_0_r2 :> <<0, <<1, 2, 0>>, 2>>)
    @@ (v_1_9_0_r1 :> <<0, <<1, 9, 0>>, 1>>) @@ (v_1_10_0_r1 :> <<0, <<1, 10, 0>>, 1>>)
    @@ (v_e0_1_2_0_r1 :> <<0, <<1, 2, 0>>, 1>>) @@ (v_e1_9_9_9_r9 :> <<1, <<9, 9, 9>>, 9>>)
    @@ (v_e2_1_0_0_r1 :> <<2, <<1, 0, 0>>, 1>>) @@ (v_1_2_0_r01 :> <<0, <<1, 2, 0>>, 1>>)

\* The lexicographic comparison of two decoded versions.
C20_Lexicographic(a, b) ==
    IF a[1] # b[1] THEN cmp(a[1], b[1])
    ELSE IF a[2][1] # b[2][1] THEN cmp(a[2][1], b[2][1])
    ELSE IF a[2][2] # b[2][2] THEN cmp(a[2][2], b[2][2])
    ELSE IF a[2][3] # b[2][3] THEN cmp(a[2][3], b[2][3])
    ELSE cmp(a[3], b[3])

\* C20: for two versions that both have the form [epoch:]major.minor.patch-pkgrel,
\* compare_versions returns the lexicographic comparison of (epoch, (major,
\* minor, patch), pkgrel), a missing epoch being 0; 2:1.0.0-1 > 1:9.9.9-9,
\* 1.2.0-2 > 1.2.0-1 and 1.10.0-1 > 1.9.0-1.
C20_VersionComparison ==
    (call.fn = "compare_versions" /\ call.returned) =>
        /\ (call.args[1] \in DOMAIN C20_Decoded /\ call.args[2] \in DOMAIN C20_Decoded)
            => call.ret = C20_Lexicographic(C20_Decoded[call.args[1]],
                                            C20_Decoded[call.args[2]])
        /\ call.args \in {<<v_e2_1_0_0_r1, v_e1_9_9_9_r9>>, <<v_1_2_0_r2, v_1_2_0_r1>>,
                          <<v_1_10_0_r1, v_1_9_0_r1>>}
            => call.ret = "Greater"

\* C20 witness: compare_versions has returned Greater for 1.10.0-1 against
\* 1.9.0-1.
C20_Witness ==
    /\ call.fn = "compare_versions"
    /\ call.returned
    /\ call.args = <<v_1_10_0_r1, v_1_9_0_r1>>
    /\ call.ret = "Greater"

\* The parseable versions among S.
C15_Parseable(S) == {v \in S : parse_semver_from_pkgver(v).some}

\* Step 1 losers: not the highest pkgrel of their (major, minor, patch).
C15_Losers(S) ==
    {v \in C15_Parseable(S) :
        \E w \in C15_Parseable(S) :
            /\ pkgver_key(w) = pkgver_key(v)
            /\ parse_semver_from_pkgver(w).pkgrel > parse_semver_from_pkgver(v).pkgrel}

\* The newest of a set of versions.
C15_Newest(S) == {v \in S : \A w \in S : ~newer(w, v)}

\* The three slots over the versions that remain after step 1.
C15_Slots(R) ==
    LET Current == C15_Newest(R)
        SameMinor == C15_Newest({v \in R \ Current : \E c \in Current :
                          /\ pkgver_key(v)[1] = pkgver_key(c)[1]
                          /\ pkgver_key(v)[2] = pkgver_key(c)[2]})
        PreviousMinor == C15_Newest({v \in R : \E c \in Current :
                          /\ pkgver_key(c)[2] > 0
                          /\ pkgver_key(v)[1] = pkgver_key(c)[1]
                          /\ pkgver_key(v)[2] = pkgver_key(c)[2] - 1})
    IN Current \cup SameMinor \cup PreviousMinor

C15_Deletions(S) ==
    LET R == C15_Parseable(S) \ C15_Losers(S) IN
    C15_Losers(S) \cup (R \ C15_Slots(R))

\* C15: retention deletes exactly the parseable versions that are not the
\* highest pkgrel of their (major, minor, patch) and the remaining ones that
\* are none of Current, Same-minor-latest and Previous-minor-latest; of
\* {1.0.0-1, 1.0.0-2, 1.1.0-1, 1.2.0-1, 2.0.0-1} it deletes all but 2.0.0-1.
C15_ThreeSlotRetention ==
    (call.fn = "cleanup_old_versions" /\ call.returned) =>
        /\ call.ret = C15_Deletions(Range(call.args[1]))
        /\ Range(call.args[1]) = {v_1_0_0_r1, v_1_0_0_r2, v_1_1_0_r1, v_1_2_0_r1, v_2_0_0_r1}
            => call.ret = {v_1_0_0_r1, v_1_0_0_r2, v_1_1_0_r1, v_1_2_0_r1}

\* C16: retention deletes no package whose version does not parse.
C16_UnparseableKept ==
    (call.fn = "cleanup_old_versions" /\ call.returned) =>
        \A v \in call.ret : parse_semver_from_pkgver(v).some

\* The listings of the same packages in every order.
C17_Orders(packages) ==
    {l \in [1..Len(packages) -> Range(packages)] : Range(l) = Range(packages)}

\* C17: the set of packages retention deletes is the same for every order in
\* which the packages are listed to it.
C17_OrderIndependent ==
    (call.fn = "cleanup_old_versions" /\ call.returned) =>
        \A l \in C17_Orders(call.args[1]) : cleanup_old_versions(l) = call.ret

\* The versions of scenario S5.
C18_Stored == {v_1_0_0_r1, v_1_0_0_r2, v_1_1_0_r1, v_1_1_0_r2, v_2_0_0_r1}

\* C18 as the specification words it: with the versions of S5 listed, cleanup
\* deletes exactly {1.0.0-1, 1.0.0-2, 1.1.0-1} and keeps {1.1.0-2, 2.0.0-1}.
C18_ScenarioS5 ==
    (/\ call.fn = "cleanup_old_versions"
     /\ call.returned
     /\ Range(call.args[1]) = C18_Stored)
    => call.ret = {v_1_0_0_r1, v_1_0_0_r2, v_1_1_0_r1}

\* C18: with the versions of S5 listed, cleanup deletes exactly {1.0.0-1,
\* 1.0.0-2, 1.1.0-1, 1.1.0-2} and keeps {2.0.0-1}: Current is 2.0.0-1, whose
\* minor is 0, so there is no Previous-minor-latest.
C18_ScenarioS5KeepsCurrent ==
    (/\ call.fn = "cleanup_old_versions"
     /\ call.returned
     /\ Range(call.args[1]) = C18_Stored)
    => call.ret = {v_1_0_0_r1, v_1_0_0_r2, v_1_1_0_r1, v_1_1_0_r2}

\* C18 witness: cleanup has returned from a listing of the versions of S5,
\* with four deletions.
C18_Witness ==
    /\ call.fn = "cleanup_old_versions"
    /\ call.returned
    /\ Range(call.args[1]) = C18_Stored
    /\ Cardinality(call.ret) = 4

\* C13: every package that was stored and that no delete was given since has
\* its record in the list of the repo/arch: after two versions of one name
\* have been stored, there is a record for each.
C13_OneRecordPerFilename ==
    \A filename \in stored :
        \E name \in DOMAIN records : records[name].filename = filename

\* C14: whenever a Package record exists, the archive its filename names
\* exists.
C14_RecordImpliesArchive ==
    \A name \in DOMAIN records : records[name].filename \in DOMAIN archives

\* C19: of the packages listed, regeneration keeps exactly one version for
\* every name, one that no other listed version of the name exceeds under
\* compare_versions, and the same one for every order of the listing.
C19_LatestPerName ==
    (call.fn = "select_latest_versions" /\ call.returned) =>
        LET packages == Range(call.args[1]) IN
        /\ \A p \in packages :
            \E chosen \in call.ret :
                /\ chosen.name = p.name
                /\ \A other \in call.ret : other.name = p.name => other = chosen
                /\ compare_versions(chosen.version, p.version) \in {"Greater", "Equal"}
        /\ \A l \in C17_Orders(call.args[1]) : select_latest_versions(l) = call.ret

\* Ordering::reverse
C21_Reverse(o) == IF o = "Less" THEN "Greater" ELSE IF o = "Greater" THEN "Less" ELSE "Equal"

\* C21: compare_versions is a total order over all version texts, parseable
\* or not: comparing b with a gives the reverse of comparing a with b, and
\* a >= b and b >= c imply a >= c, a > c when one of the two is strict.
C21_TotalOrder ==
    (call.fn = "compare_versions" /\ call.returned) =>
        LET a == call.args[1]
            b == call.args[2]
        IN /\ compare_versions(b, a) = C21_Reverse(call.ret)
           /\ \A c \in CompareVersions :
                (call.ret \in {"Greater", "Equal"}
                    /\ compare_versions(b, c) \in {"Greater", "Equal"})
                => /\ compare_versions(a, c) \in {"Greater", "Equal"}
                   /\ (call.ret = "Greater" \/ compare_versions(b, c) = "Greater")
                        => compare_versions(a, c) = "Greater"

\* C22: a key that has a pending update is eventually regenerated, also
\* when RequestUpdate messages for it keep arriving.
C22_ProgressUnderLoad ==
    \A k \in Keys :
        (k \in DOMAIN pending) ~> (actorPc = "regen" /\ actorCur = k)

\* The channel is first in, first out, and the actor takes a message only at
\* the top of its loop; a ForceRebuild(k) taken removes k from pending and
\* starts the regeneration of k, whatever is queued behind it stays queued; a
\* RequestUpdate(k) taken is recorded in pending; an entry leaves pending only
\* into a regeneration of its key.
C23_Step ==
    /\ inbox' # inbox =>
        \/ /\ Len(inbox') = Len(inbox) + 1
           /\ SubSeq(inbox', 1, Len(inbox)) = inbox
        \/ /\ actorPc = "select"
           /\ inbox # <<>>
           /\ inbox' = Tail(inbox)
    /\ (inbox # <<>> /\ inbox' = Tail(inbox) /\ Head(inbox).type = "ForceRebuild") =>
        /\ Head(inbox).key \notin DOMAIN pending'
        /\ actorPc' = "regen"
        /\ actorCur' = Head(inbox).key
    /\ (inbox # <<>> /\ inbox' = Tail(inbox) /\ Head(inbox).type = "RequestUpdate") =>
        /\ Head(inbox).key \in DOMAIN pending'
        /\ pending'[Head(inbox).key].last_requested = now
        /\ actorPc' = "select"
    /\ \A k \in Keys :
        (k \in DOMAIN pending /\ k \notin DOMAIN pending') =>
            (actorPc' = "regen" /\ actorCur' = k)

C24_RegenerationFailureLogged ==
    [][\A t \in Tasks :
          (task[t].op = "complete" /\ task[t].pc = "regenerate") =>
              /\ task'[t] = IdleTask => response'.kind = "Ok"
              /\ task[t].package.filename \in DOMAIN archives'
              /\ task[t].package.name \in DOMAIN records']_vars

\* C25: a failure of the automatic retention in complete does not fail the
\* upload: from that step on complete can only return success, and the
\* archive and the record of the uploaded package's name stay stored.
C25_RetentionFailureTolerated ==
    [][\A t \in Tasks :
          (/\ task[t].op = "complete"
           /\ task[t].pc \in {"cleanup", "delete_check", "delete_dir", "delete_map"}) =>
              /\ task'[t] = IdleTask =>
                    /\ response'.op = "complete"
                    /\ response'.kind = "Ok"
                    /\ response'.why = "package created"
              /\ task'[t] # IdleTask => task'[t].op = "complete"
              /\ task[t].package.filename \in DOMAIN archives'
              /\ task[t].package.name \in DOMAIN records']_vars

\* C25 witness: the retention of a complete failed (its error is in the log)
\* and complete returned 201 for the package, which is stored.
C25_Witness ==
    /\ "Failed to cleanup old package versions" \in errors
    /\ response.op = "complete"
    /\ response.kind = "Ok"
    /\ archives # <<>>
    /\ \A t \in Tasks : task[t] = IdleTask

\* C26: a complete whose store step finds the canonical filename of its
\* package stored returns AlreadyExists there and then, and the step leaves
\* every archive and every record as it was; a complete that returned success
\* has copied to a filename that its store step found free.
C26_DuplicateFilename ==
    [][\A t \in Tasks :
          /\ (/\ task[t].op = "complete"
              /\ task[t].pc = "store"
              /\ task[t].package.filename \in DOMAIN archives
              /\ task'[t] # task[t]) =>
                 /\ task'[t] = IdleTask
                 /\ response'.op = "complete"
                 /\ response'.kind = "AlreadyExists"
                 /\ archives' = archives
                 /\ records' = records
          /\ (/\ task[t].op = "complete"
              /\ task[t].pc = "store"
              /\ task'[t].pc = "copy") =>
                 task[t].package.filename \notin DOMAIN archives]_vars

\* C26 witness: a complete has returned AlreadyExists and the archive stored
\* before it is there.
C26_Witness ==
    /\ response.op = "complete"
    /\ response.kind = "AlreadyExists"
    /\ archives # <<>>
    /\ records # <<>>

\* A component no path may be built from.
C27_Rejected(component) ==
    \/ Len(component) = 0
    \/ Len(component) = 1 /\ component[1] = "."
    \/ Len(component) = 2 /\ component[1] = "." /\ component[2] = "."
    \/ \E i \in 1..Len(component) : component[i] \in {"/", "\\", Nul}

\* The components among the arguments of a path builder (the last argument is
\* the state of the file system).
C27_Supplied == {call.args[i] : i \in 1..(Len(call.args) - 1)}

\* C27: package_path, metadata_path and repo_dir return InvalidPackage when a
\* component is empty, is "." or "..", or contains '/', a backslash or NUL,
\* and a path they return lies under the data root.
C27_PathSafety ==
    (call.fn \in {"package_path", "metadata_path", "repo_dir"} /\ call.returned) =>
        /\ (\E component \in C27_Supplied : C27_Rejected(component)) =>
              (~call.ret.ok /\ call.ret.kind = "InvalidPackage")
        /\ call.ret.ok =>
              /\ starts_with(canonicalize(call.ret.path), canonicalize(base_path))
              /\ Len(canonicalize(call.ret.path)) > Len(canonicalize(base_path))

\* C27 witness: package_path has rejected a repo of ".." at a time when
\* neither the path nor its parent directory exists.
C27_Witness ==
    /\ call.fn = "package_path"
    /\ call.returned
    /\ call.args = <<<<".", ".">>, <<"a">>, <<"a">>, "neither">>
    /\ ~call.ret.ok

\* A stored version is named by the specs: it satisfies a spec that parses as
\* a range, or it is a spec that does not.
C28_Named(v, specs) ==
    \E i \in 1..Len(specs) :
        IF version_req_parse(specs[i]).ok
        THEN version_matches_range(v, version_req_parse(specs[i]))
        ELSE v = specs[i]

\* C28: when delete_versions returns, the versions stored are those stored
\* at the call that no spec names; with 1.0.0-1, 1.1.0-1 and 2.0.0-1 stored
\* and the spec ^1.0.0, two versions are deleted and 2.0.0-1 alone remains.
C28_VersionDelete ==
    [][(versionDelete.pc # "done" /\ versionDelete'.pc = "done") =>
          /\ StoredVersions' = {v \in versionDelete'.before :
                                   ~C28_Named(v, versionDelete'.specs)}
          /\ (/\ versionDelete'.before = {v_1_0_0_r1, v_1_1_0_r1, v_2_0_0_r1}
              /\ versionDelete'.specs = <<req_caret_1_0_0>>) =>
                 /\ versionDelete'.deleted_count = 2
                 /\ StoredVersions' = {v_2_0_0_r1}]_vars

\* The entry of an upload_id (its session with metadata and uploaded_chunks,
\* or its staging directory with the chunk files and the signature) is not
\* the same in the two maps.
C29_Changed(before, after, id) ==
    \/ (id \in DOMAIN before) # (id \in DOMAIN after)
    \/ id \in DOMAIN before /\ id \in DOMAIN after /\ before[id] # after[id]

\* C29: whatever the interleaving, a step changes the session or the staged
\* files of an upload_id only when it is a step of a request that names this
\* upload_id, of the expiry sweep working on it, or the initiate that issues
\* it: operations on one session leave every other session as it was.
C29_SessionIndependence ==
    [][\A id \in TwoUploadIds :
          (C29_Changed(sessions, sessions', id) \/ C29_Changed(staging, staging', id)) =>
              \/ \E t \in Tasks : task[t].id = id /\ task'[t] # task[t]
              \/ sweep.cur = id /\ sweep' # sweep
              \/ id \in issued' \ issued]_vars

\* C29 witness: two sessions exist, a chunk of u1 was stored and recorded, and
\* the session of u2 has no chunk recorded and no chunk file.
C29_Witness ==
    /\ {"u1", "u2"} \subseteq DOMAIN sessions
    /\ {"u1", "u2"} \subseteq DOMAIN staging
    /\ sessions["u1"].uploaded_chunks = {1}
    /\ DOMAIN staging["u1"].chunks = {1}
    /\ sessions["u2"].uploaded_chunks = {}
    /\ DOMAIN staging["u2"].chunks = {}

\* C30: a store_chunk, upload_signature, complete or abort that names an
\* upload_id without a session returns at once with the kind NotFound, and
\* sessions, staged files, archives and records stay as they were.
C30_MissingSession ==
    [][\A t \in Tasks :
          (/\ task[t].op \in {"store_chunk", "upload_signature", "complete", "abort"}
           /\ task[t].pc = "start"
           /\ task[t].id \notin DOMAIN sessions
           /\ task'[t] # task[t]) =>
              /\ task'[t] = IdleTask
              /\ response'.op = task[t].op
              /\ response'.kind = "NotFound"
              /\ UNCHANGED <<sessions, staging, archives, records>>]_vars

\* C31: list_packages for an arch returns exactly the stored packages whose
\* arch is that arch or "any".
C31_ListIncludesAny ==
    (call.fn = "list_packages" /\ call.returned) =>
        call.ret = {pkg \in call.args[1] : pkg.arch \in {call.args[2], "any"}}

\* C32: once a database was published, a client that fetches <repo>.db gets
\* a complete archive, also while a regeneration is running: never a missing
\* alias, never an archive whose end is not written.
C32_AtomicPublication ==
    (served.status # "none" /\ served.published >= 1) =>
        (served.status = "Ok" /\ served.finished)

\* C33: initiate creates a session only for a filename ending in
\* .pkg.tar.zst with 0 < size <= max_payload_size and 1 <= chunk_size <= size;
\* any other request is answered InvalidPackage, or PayloadTooLarge (that one
\* only for a size above the maximum, and always for such a size under a
\* valid filename), and leaves no session and no staging directory; every
\* session has 1 <= chunk_size <= file_size <= max_payload_size and
\* total_chunks = ceil(file_size / chunk_size) >= 1.
C33_Valid ==
    /\ ends_with(call.args[1], pkg_tar_zst)
    /\ 0 < call.args[2] /\ call.args[2] <= max_payload_size
    /\ 1 <= call.args[3] /\ call.args[3] <= call.args[2]

C33_InitiateGuard ==
    (call.fn = "initiate_upload" /\ call.returned) =>
        /\ (DOMAIN sessions # {} \/ call.ret = "Created") => C33_Valid
        /\ ~C33_Valid =>
            /\ call.ret \in {"InvalidPackage", "PayloadTooLarge"}
            /\ call.ret = "PayloadTooLarge" => call.args[2] > max_payload_size
            /\ (ends_with(call.args[1], pkg_tar_zst) /\ call.args[2] > max_payload_size)
                    => call.ret = "PayloadTooLarge"
            /\ sessions = EmptyMap
            /\ staging = EmptyMap
        /\ \A id \in DOMAIN sessions :
            /\ id \in DOMAIN staging
            /\ sessions[id].file_size = call.args[2]
            /\ 1 <= sessions[id].chunk_size
            /\ sessions[id].chunk_size <= sessions[id].file_size
            /\ sessions[id].file_size <= max_payload_size
            /\ sessions[id].total_chunks >= 1
            /\ (sessions[id].total_chunks - 1) * sessions[id].chunk_size < sessions[id].file_size
            /\ sessions[id].file_size <= sessions[id].total_chunks * sessions[id].chunk_size

\* A request above the maximum size was answered PayloadTooLarge and left
\* nothing behind.
C33_Witness ==
    /\ call.fn = "initiate_upload" /\ call.returned
    /\ call.ret = "PayloadTooLarge"
    /\ call.args[3] >= 1 /\ call.args[3] <= call.args[2]
    /\ sessions = EmptyMap

\* C34: in every state the chunks a session records are numbers of
\* 1..total_chunks, and a store_chunk whose number is below 1 or above
\* total_chunks is answered InvalidPackage, writes no file and records nothing.
C34_InRange ==
    \A id \in DOMAIN sessions : sessions[id].uploaded_chunks \subseteq 1..sessions[id].total_chunks

C34_Rejected ==
    \A t \in Tasks :
        (/\ task[t].op = "store_chunk"
         /\ task[t].pc = "start"
         /\ task'[t] # task[t]
         /\ task[t].id \in DOMAIN sessions
         /\ (task[t].n < 1 \/ task[t].n > sessions[task[t].id].total_chunks))
        => /\ task'[t] = IdleTask
           /\ response'.op = "store_chunk"
           /\ response'.kind = "InvalidPackage"
           /\ staging' = staging
           /\ sessions' = sessions

C34_ChunkRange == []C34_InRange /\ [][C34_Rejected]_vars

\* A chunk number out of range was rejected for a session that has chunks.
C34_Witness ==
    /\ response = [op |-> "store_chunk", kind |-> "InvalidPackage", why |-> "chunk out of range"]
    /\ \E id \in DOMAIN sessions : sessions[id].uploaded_chunks # {}

\* C35: a debounced regeneration of k starts only when the debounce period
\* has passed since the last RequestUpdate(k) the actor received; the timer
\* handler removes and regenerates exactly the entries for which it has
\* passed, one after the other, and leaves every other entry as it was.
C35_Due == {k \in DOMAIN pending : now - reqLast[k] >= Debounce}

C35_Step ==
    /\ process_ready_updates =>
        /\ C35_Due = {} => (pending' = pending /\ actorPc' = "select")
        /\ C35_Due # {} =>
            /\ actorPc' = "regen" /\ actorMode' = "ready"
            /\ actorCur' \in C35_Due
            /\ actorWork' = C35_Due \ {actorCur'}
            /\ pending' = remove(pending, actorCur')
    /\ (regenerate_db_done /\ actorMode = "ready") =>
        IF actorWork # {}
        THEN /\ actorPc' = "regen" /\ actorMode' = "ready"
             /\ actorCur' \in actorWork /\ actorCur' \in DOMAIN pending
             /\ actorWork' = actorWork \ {actorCur'}
             /\ pending' = remove(pending, actorCur')
        ELSE pending' = pending /\ actorPc' = "select"
    /\ \A k \in Keys :
        (actorRegens'[k] # actorRegens[k] /\ actorMode' = "ready") =>
            /\ k \in DOMAIN pending
            /\ now - reqLast[k] >= Debounce
            /\ \A j \in DOMAIN pending \ {k} :
                j \in DOMAIN pending' /\ pending'[j] = pending[j]

C35_DebounceSafety == [][C35_Step]_vars

\* The timer took the one entry that was due and left a younger one pending.
C35_Witness ==
    /\ handling = TimerFired
    /\ actorPc = "regen" /\ actorMode = "ready" /\ actorWork = {}
    /\ DOMAIN pending # {}
    /\ \A j \in DOMAIN pending : now - reqLast[j] < Debounce

\* C36: an abort or the expiry sweep racing with a store_chunk never
\* resurrects the session: an upload_id that was issued and is absent from the
\* session map stays absent, and once delete_session has returned for it no
\* entry of the map is without its staging directory.
C36_StaysAbsent ==
    \A id \in issued :
        /\ id \notin DOMAIN sessions => id \notin DOMAIN sessions'
        /\ id \in destroyed' => (id \in DOMAIN sessions' => id \in DOMAIN staging')

C36_NoResurrection == [][C36_StaysAbsent]_vars

\* The listing of the versions as packages of one name.
C37_Packages(versions) ==
    [i \in 1..Len(versions) |-> [name |-> "foo", version |-> versions[i]]]

\* C37: retention never deletes the version the database generator publishes
\* as the latest of the name (the greatest under the version comparator, the
\* epoch included): the latest version is still stored after a cleanup.
C37_LatestSurvives ==
    (call.fn = "cleanup_old_versions" /\ call.returned) =>
        \A pkg \in select_latest_versions(C37_Packages(call.args[1])) :
            pkg.version \notin call.ret

\* The reasons for which a complete is rejected.
C38_Rejections ==
    {"missing chunks", "chunk count mismatch", "size mismatch", "checksum mismatch",
     "invalid archive", "package exists"}

\* C38: a complete that is rejected (missing chunks, manifest count, size or
\* checksum mismatch, invalid archive, duplicate filename) has changed neither
\* the session map nor the stored archives and records in any of its steps:
\* the session is still in the map with its uploaded_chunks, and no package is
\* stored by it.
C38_Step ==
    \A t \in Tasks :
        (/\ task[t].op = "complete"
         /\ task[t].pc \in {"start", "assemble", "read", "verify", "extract", "store"}
         /\ task'[t] # task[t])
        => /\ sessions' = sessions
           /\ archives' = archives
           /\ records' = records
           /\ (task'[t] = IdleTask /\ response'.why \in C38_Rejections) =>
                /\ response'.op = "complete"
                /\ response'.kind \in {"InvalidPackage", "AlreadyExists"}
           /\ (task'[t] = IdleTask /\ response'.why \in {"missing chunks", "chunk count mismatch"}) =>
                task[t].id \in DOMAIN sessions'

C38_RejectedCompleteKeepsSession == [][C38_Step]_vars

\* A complete was rejected for missing chunks; the session is in the map with
\* the chunk it has, nothing is stored.
C38_Witness ==
    /\ response = [op |-> "complete", kind |-> "InvalidPackage", why |-> "missing chunks"]
    /\ \E id \in DOMAIN sessions :
        /\ sessions[id].uploaded_chunks # {}
        /\ ~is_complete(sessions[id])
    /\ archives = EmptyMap
    /\ records = EmptyMap

\* RequestUpdate(k) is in the channel.
C39_Queued(k) == \E i \in 1..Len(inbox) : inbox[i] = RequestUpdate(k)

\* C39: no requested update is lost.  Provided the requests for k stop at
\* some time, every RequestUpdate(k) in the channel, also one sent while k is
\* being regenerated, is received and recorded, and for every recorded
\* request a regeneration of k starts afterwards; a recorded request leaves
\* the pending map only into a regeneration of its key.
C39_NoLostUpdate ==
    /\ \A k \in Keys :
        (<>[](~C39_Queued(k))) =>
            /\ C39_Queued(k) ~> (k \in DOMAIN pending)
            /\ (k \in DOMAIN pending) ~>
                    (actorPc = "regen" /\ actorCur = k /\ k \notin DOMAIN pending)
    /\ [][\A k \in DOMAIN pending :
            k \notin DOMAIN pending' => (actorPc' = "regen" /\ actorCur' = k)]_vars

\* C40: of two concurrent completes of one upload_id at most one succeeds:
\* the copy into the repository is made once, to a filename not stored yet,
\* with exactly file_size bytes, and a complete returns success only for an
\* upload_id no complete has succeeded for before.
C40_Step ==
    \A t \in Tasks :
        /\ (/\ task[t].op = "complete"
            /\ task[t].pc = "copy"
            /\ task'[t].pc = "metadata") =>
                /\ task[t].package.filename \notin DOMAIN archives
                /\ Len(archives'[task[t].package.filename]) = task[t].snap.file_size
        /\ (/\ task[t].op = "complete"
            /\ task'[t] = IdleTask
            /\ response'.kind = "Ok") =>
                task[t].id \notin destroyed

C40_OneCompleteWins == [][C40_Step]_vars

====
